---- MODULE Spec2Model ----
(***************************************************************************)
(* Verification model of the ChattyFunnel real-time client and ingestion.  *)
(*                                                                         *)
(*  - the WebSocket client, in its two implementations: the useWebSocket   *)
(*    hook (frontend/hooks/useWebSocket.ts) and the WebSocketProvider      *)
(*    (frontend/contexts/WebSocketContext.tsx);                            *)
(*                                                                         *)
(* Every handler of the source is one action.  A handler is written as a   *)
(* function from the client's state (a record of the refs and React state  *)
(* it reads and writes) to the state it leaves, so that the calls a        *)
(* handler makes (connect, cleanup, flushMessageQueue, close) compose in   *)
(* the order the source makes them.                                        *)
(***************************************************************************)
EXTENDS Integers, Sequences, FiniteSets, TLC

VARIABLES
    (* --- the client component ------------------------------------------ *)
    impl,               \* "hook" (useWebSocket) or "provider" (WebSocketProvider)
    mounted,            \* the component is mounted
    userId,             \* hook: the userId prop; provider: the userId state (0 = null)
    localUserId,        \* localStorage 'userId' (0 = absent)
    isConnected,        \* React state
    lastError,          \* React state
    ws,                 \* ws.current: a socket id, 0 = null
    pingInterval,       \* pingInterval.current: an interval id, 0 = null
    pongTimeout,        \* pongTimeout.current: a timeout id, 0 = null
    reconnectTimeout,   \* reconnectTimeout.current: a timeout id, 0 = null
    reconnectAttempts,  \* reconnectAttempts.current
    messageQueue,       \* messageQueue.current
    isManualClose,      \* isManualClose.current
    isConnecting,       \* isConnecting.current (provider only)
    connectUid,         \* hook: the userId in the closure of connect.current (0 = connect.current is null)
    listening,          \* the effect's window/document listeners are registered
    closureConnected,   \* hook: isConnected as captured by the effect's closure
    (* --- the browser: sockets and timers ------------------------------- *)
    sockets,            \* socket id -> [rs, est, oc, oh, uid]
    intervals,          \* live setInterval timers, named by the socket whose onopen made them
    pongTimers,         \* interval id -> socket pinged by its pending pong timeout (0 = none pending)
    reconnTimers,       \* live reconnect timeouts, named by the socket whose onclose made them
    mountTimers,        \* provider: pending checkAuth timeouts, by the uid they will connect
    visTimer,           \* provider: pending visibility debounce timeout (uid, 0 = none)
    pingOut,            \* sockets with a ping the server has not answered yet
    inbox,              \* new_message frames the server sent, not yet delivered: <<socket, conversation, id>>
    lastMessage,        \* React state: the last frame other than a pong, [conv, msg] or none
    (* --- observation of the last step ---------------------------------- *)
    wire,               \* frames sent by the last step: <<socket, frame>>, in order
    opened,             \* the open event the last step handled: [sock, queue]
    fired,              \* the timer the last step fired, or the effect it ran: [kind, owner, stale]
    closed,             \* the close event the last step handled: [sock, code, manual, hb,
                        \*   scheduled, delay, prev, since]
    lastDelay,          \* the reconnect delay scheduled last since the last successful open (0 = none)
    since,              \* what set reconnectAttempts last: start, open, reopen, reset or close
    hbClosed,           \* sessions whose ping a pong timeout fired for, or that it closed
    disconnected,       \* disconnect() was called, and since then neither reconnect() or
                        \*   connect() nor the storage event of a login
    queuedBy,           \* for each message of messageQueue, the userId at its sendMessage
    (* --- the scope of the run ------------------------------------------ *)
    scope,              \* [queue, attempts, sockets]: how far this run queues, counts and connects
    (* --- the backend's database and its last broadcast ----------------- *)
    db_messages,        \* table messages: the rows in the order of their ids
    db_participants,    \* table conversation_participants: the rows
    broadcast,          \* what the last webhook broadcast: [user_id, conversation_id, id] or none
    (* --- the messages page and the server it reads --------------------- *)
    selectedConversation, \* React state: a conversation id, 0 = null
    messages,           \* React state: the ids of the messages listed, in order
    store,              \* the server's messages in the order of their ids: [conv, gap], gap =
                        \*   persisted while the client viewed conv, after a close and
                        \*   before the next open
    loads,              \* GET .../messages requests in flight: [conv, answered, data]
    (* --- the automation engine of the backend -------------------------- *)
    now,                \* the clock, in minutes
    ai_bots,            \* table ai_bots: bot id -> [bot_type, is_active, auto_respond, trigger]
    ai_settings,        \* table conversation_ai_settings: conversation ->
                        \*   [assigned_bot_id, ai_enabled, human_assigned]
    enrollments,        \* table funnel_enrollments: the rows in the order of their ids
    ingestions,         \* inbound messages in the pipeline: slot -> [pc, key, body]
    schedulers,         \* Scheduler runs: run -> [pc, id, step, status] (what the run read)
    decision,           \* what the last resolution decided, and from what
    trail,              \* what the last step did to an enrollment, in order
    rejected,           \* the status of the row whose write the UNIQUE constraint refused
                        \*   in the last step ("none": nothing was refused)
    autoscope           \* [slots, runs, rows]: the pipeline slots, Scheduler runs and
                        \*   enrollment rows of this run

clientVars == <<impl, mounted, userId, localUserId, isConnected, lastError, ws,
                pingInterval, pongTimeout, reconnectTimeout, reconnectAttempts,
                messageQueue, isManualClose, isConnecting, connectUid, listening,
                closureConnected, sockets, intervals, pongTimers,
                reconnTimers, mountTimers, visTimer, pingOut, inbox, lastMessage,
                wire, opened, fired, closed, lastDelay, since, hbClosed,
                disconnected, queuedBy, scope>>

ingestVars == <<db_messages, db_participants, broadcast>>

pageVars == <<selectedConversation, messages, store, loads>>

autoVars == <<now, ai_bots, ai_settings, enrollments, ingestions, schedulers,
              decision, trail, rejected, autoscope>>

vars == <<clientVars, ingestVars, pageVars, autoVars>>

(***************************************************************************)
(* Bounds of the model.                                                    *)
(***************************************************************************)
MaxSockets == 2      \* sockets and timers of them that are alive at one time
MaxQueue == 2        \* messages queued while disconnected, in the runs about the queue
MaxAttempts == 7     \* reconnectAttempts.current at most, in the runs about the backoff
FewQueued == 0       \* messages queued in the other runs
FewAttempts == 2     \* reconnectAttempts.current at most in the other runs
QueueAttempts == 1   \* reconnectAttempts.current at most in the runs about the queue
QueueSockets == 1    \* socket objects alive at a time in the runs about the queue
NumUsers == 1        \* user ids 1..NumUsers
MaxUsers == 2        \* user ids 1..MaxUsers, in the runs about a change of user
UsersQueued == 1     \* messages queued in the runs about a change of user
MaxRows == 3         \* rows of table messages
NumConvs == 2        \* conversations 1..NumConvs of the messages page
MaxMsgs == 2         \* messages the server persists in the runs of the messages page
MaxLoads == 2        \* GET requests of the messages page in flight at a time
NumAutoConvs == 1    \* conversations of the automation engine
MaxInflight == 2     \* inbound messages in the ingestion pipeline at a time
NumSchedulers == 2   \* Scheduler runs at a time
MaxEnrollments == 2  \* rows of table funnel_enrollments
MaxTime == 3         \* minutes the clock runs
FewInflight == 1     \* pipeline slots in the runs about the hierarchy of bots
FewSchedulers == 1   \* Scheduler runs in the runs about the hierarchy of bots
FewEnrollments == 1  \* enrollment rows in the runs about the hierarchy of bots

(***************************************************************************)
(* Program constants.                                                      *)
(***************************************************************************)
PING_EVERY == 15000          \* setInterval period of the heartbeat
PONG_WAIT == 5000            \* setTimeout of the pong timeout
FIRST_DELAY_HOOK == 100      \* first retry delay, useWebSocket
FIRST_DELAY_PROVIDER == 500  \* first retry delay, WebSocketProvider
BACKOFF_BASE == 1000
BACKOFF_CAP == 10000
POLICY_VIOLATION == 1008     \* close code: user not found
NORMAL_CLOSURE == 1000       \* close code of a clean close by the server
NO_STATUS == 1005            \* close code of a clean close the client asked for with close()
ABNORMAL_CLOSURE == 1006     \* close code of a failed or lost connection

Users == 1..NumUsers
SockIds == 1..MaxSockets
\* The payloads sendMessage is called with: strings, the empty string included.
Messages == {"", "a", "b"}

NoSocket == [rs |-> "NONE", est |-> FALSE, oc |-> FALSE, oh |-> FALSE, uid |-> 0]
NoFire == [kind |-> "none", owner |-> 0, stale |-> FALSE]
NoClose == [sock |-> 0, code |-> 0, manual |-> FALSE, hb |-> FALSE, scheduled |-> FALSE,
            delay |-> 0, prev |-> 0, since |-> "start"]
NoOpen == [sock |-> 0, queue |-> <<>>]
NoMessage == [conv |-> 0, msg |-> 0]

(***************************************************************************)
(* The client's state as one record, and its assignment to the variables.  *)
(***************************************************************************)
St ==
    [impl |-> impl, mounted |-> mounted, userId |-> userId,
     localUserId |-> localUserId, isConnected |-> isConnected,
     lastError |-> lastError, ws |-> ws, pingInterval |-> pingInterval,
     pongTimeout |-> pongTimeout, reconnectTimeout |-> reconnectTimeout,
     reconnectAttempts |-> reconnectAttempts, messageQueue |-> messageQueue,
     isManualClose |-> isManualClose, isConnecting |-> isConnecting,
     connectUid |-> connectUid, listening |-> listening,
     closureConnected |-> closureConnected, sockets |-> sockets,
     intervals |-> intervals, pongTimers |-> pongTimers,
     reconnTimers |-> reconnTimers, mountTimers |-> mountTimers,
     visTimer |-> visTimer, pingOut |-> pingOut, inbox |-> inbox,
     lastMessage |-> lastMessage, wire |-> wire,
     opened |-> opened, fired |-> fired, closed |-> closed,
     lastDelay |-> lastDelay, since |-> since, hbClosed |-> hbClosed,
     disconnected |-> disconnected, queuedBy |-> queuedBy]

SetVars(c) ==
    /\ impl' = c.impl
    /\ mounted' = c.mounted
    /\ userId' = c.userId
    /\ localUserId' = c.localUserId
    /\ isConnected' = c.isConnected
    /\ lastError' = c.lastError
    /\ ws' = c.ws
    /\ pingInterval' = c.pingInterval
    /\ pongTimeout' = c.pongTimeout
    /\ reconnectTimeout' = c.reconnectTimeout
    /\ reconnectAttempts' = c.reconnectAttempts
    /\ messageQueue' = c.messageQueue
    /\ isManualClose' = c.isManualClose
    /\ isConnecting' = c.isConnecting
    /\ connectUid' = c.connectUid
    /\ listening' = c.listening
    /\ closureConnected' = c.closureConnected
    /\ sockets' = c.sockets
    /\ intervals' = c.intervals
    /\ pongTimers' = c.pongTimers
    /\ reconnTimers' = c.reconnTimers
    /\ mountTimers' = c.mountTimers
    /\ visTimer' = c.visTimer
    /\ pingOut' = c.pingOut
    /\ inbox' = c.inbox
    /\ lastMessage' = c.lastMessage
    /\ wire' = c.wire
    /\ opened' = c.opened
    /\ fired' = c.fired
    /\ closed' = c.closed
    /\ lastDelay' = c.lastDelay
    /\ since' = c.since
    /\ hbClosed' = c.hbClosed
    /\ disconnected' = c.disconnected
    /\ queuedBy' = c.queuedBy

\* The state a handler starts from: the observation of the previous step is over.
Begin ==
    [full |-> FALSE] @@
    [St EXCEPT !.wire = <<>>, !.opened = NoOpen, !.fired = NoFire, !.closed = NoClose]

\* Ids are reused.  A ref that names a timer which fired or was cleared behaves as
\* null (clearTimeout and clearInterval of it do nothing); a socket that is CLOSED
\* and that no live timer names behaves as none (close() of it does nothing and
\* its readyState is neither OPEN nor CONNECTING).
Referenced(c) ==
    c.intervals \cup c.reconnTimers
        \cup {i \in SockIds : c.pongTimers[i] # 0}
        \cup {c.pongTimers[i] : i \in SockIds}
Collectable(c) ==
    {s \in SockIds : c.sockets[s].rs = "CLOSED" /\ s \notin Referenced(c)}
Normalize(c) ==
    LET dead == Collectable(c)
    IN [c EXCEPT
          !.pingInterval = IF @ \in c.intervals THEN @ ELSE 0,
          !.pongTimeout = IF @ # 0 /\ c.pongTimers[@] # 0 THEN @ ELSE 0,
          !.reconnectTimeout = IF @ \in c.reconnTimers THEN @ ELSE 0,
          !.ws = IF @ \in dead THEN 0 ELSE @,
          !.sockets = [s \in SockIds |-> IF s \in dead THEN NoSocket ELSE @[s]],
          !.pingOut = @ \ dead,
          !.hbClosed = @ \ dead]

(***************************************************************************)
(* The browser's WebSocket object.                                         *)
(***************************************************************************)
\* ws.current?.readyState
ReadyState(c) == IF c.ws = 0 THEN "undefined" ELSE c.sockets[c.ws].rs

\* WebSocket.close(): CONNECTING or OPEN becomes CLOSING, the close event comes later.
Close(c, s) ==
    IF s # 0 /\ c.sockets[s].rs \in {"CONNECTING", "OPEN"}
    THEN [c EXCEPT !.sockets[s].rs = "CLOSING"]
    ELSE c

\* WebSocket.send(frame) on socket s.
Send(c, s, frame) ==
    [c EXCEPT !.wire = Append(@, <<s, frame>>),
              !.pingOut = IF frame = "ping" THEN @ \cup {s} ELSE @]

\* new WebSocket(url) for user uid, with the four handlers attached.
\* A socket object takes the first free id; with none free the model stops there
\* (full: the step is outside the bounds).
FreeIds(c) == {s \in 1..scope.sockets : c.sockets[s].rs = "NONE"}
NewSocket(c0, uid) ==
    LET c == Normalize(c0)
    IN IF FreeIds(c) = {} THEN [c EXCEPT !.full = TRUE]
       ELSE LET n == CHOOSE s \in FreeIds(c) : \A r \in FreeIds(c) : s <= r
            IN [c EXCEPT !.ws = n,
                         !.sockets[n] = [rs |-> "CONNECTING", est |-> FALSE,
                                         oc |-> TRUE, oh |-> TRUE, uid |-> uid]]

\* The close codes the browser can report for socket s when its connection ends.
CloseCodes(c, s) ==
    IF ~c.sockets[s].est THEN {ABNORMAL_CLOSURE}
    ELSE IF c.sockets[s].rs = "CLOSING" THEN {NO_STATUS, ABNORMAL_CLOSURE}
    ELSE {NORMAL_CLOSURE, ABNORMAL_CLOSURE, POLICY_VIOLATION}

(***************************************************************************)
(* Timers.                                                                 *)
(***************************************************************************)
ClearInterval(c, i) == [c EXCEPT !.intervals = @ \ {i}]
ClearPong(c, i) == IF i = 0 THEN c ELSE [c EXCEPT !.pongTimers[i] = 0]
ClearReconnect(c, t) == [c EXCEPT !.reconnTimers = @ \ {t}]

\* A session is closed or discarded: its close event was handled, it is no longer
\* ws.current, disconnect() or the effect's cleanup ran, or the component unmounted.
Discarded(c, s) ==
    \/ c.sockets[s].rs = "CLOSED"
    \/ c.ws # s
    \/ c.isManualClose
    \/ ~c.mounted

\* The same for the session a reconnect timer was made for, which is closed by then.
Replaced(c, s) ==
    \/ c.ws # s
    \/ c.isManualClose
    \/ ~c.mounted

(***************************************************************************)
(* Shared by the two implementations.                                      *)
(***************************************************************************)
RECURSIVE Pow2(_)
Pow2(n) == IF n = 0 THEN 1 ELSE 2 * Pow2(n - 1)

Min(a, b) == IF a < b THEN a ELSE b

\* The delay without its cap.
BackoffDelay_NoCap(first, attempts) ==
    IF attempts = 0 THEN first ELSE BACKOFF_BASE * Pow2(attempts - 1)

\* delay = attempts === 0 ? first : Math.min(1000 * Math.pow(2, attempts - 1), 10000)
BackoffDelay(first, attempts) ==
    IF attempts = 0 THEN first
    ELSE Min(BACKOFF_BASE * Pow2(attempts - 1), BACKOFF_CAP)

FirstDelay(c) == IF c.impl = "hook" THEN FIRST_DELAY_HOOK ELSE FIRST_DELAY_PROVIDER

\* What the last step's close handler did, for the properties: no retry,
NotScheduled(c, s, code) ==
    [sock |-> s, code |-> code, manual |-> c.isManualClose, hb |-> s \in c.hbClosed,
     scheduled |-> FALSE, delay |-> 0, prev |-> c.lastDelay, since |-> c.since]
\* or a retry after delay.
Scheduled(c, s, code, delay) ==
    [c EXCEPT !.closed = [sock |-> s, code |-> code, manual |-> c.isManualClose,
                          hb |-> s \in c.hbClosed, scheduled |-> TRUE, delay |-> delay,
                          prev |-> c.lastDelay, since |-> c.since],
              !.lastDelay = delay,
              !.since = "close"]
\* reconnectAttempts.current = 0 in a handler other than onopen.
ResetAttempts(c) == [c EXCEPT !.reconnectAttempts = 0, !.since = "reset"]

\* sendMessage(message)
sendMessage(c, m) ==
    IF ReadyState(c) = "OPEN"
    THEN Send(c, c.ws, m)
    ELSE [c EXCEPT !.messageQueue = Append(@, m), !.queuedBy = Append(@, c.userId)]

\* The while loop of flushMessageQueue: shift() a message, send it if (message).
RECURSIVE FlushLoop(_)
FlushLoop(c) ==
    IF Len(c.messageQueue) = 0 THEN c
    ELSE LET m == Head(c.messageQueue)
             c1 == [c EXCEPT !.messageQueue = Tail(@), !.queuedBy = Tail(@)]
         IN FlushLoop(IF m # "" THEN Send(c1, c1.ws, m) ELSE c1)

flushMessageQueue(c) ==
    IF Len(c.messageQueue) > 0 /\ ReadyState(c) = "OPEN" THEN FlushLoop(c) ELSE c

\* The setInterval callback of onopen, for interval i.
PingTick(c, i) ==
    IF ReadyState(c) = "OPEN"
    THEN [Send(c, c.ws, "ping") EXCEPT !.pongTimers[i] = c.ws, !.pongTimeout = i]
    ELSE c

\* The callback without its close().
PongTimeoutFired_NoClose(c, i) ==
    [c EXCEPT !.pongTimers[i] = 0,
              !.fired = [kind |-> "pong", owner |-> c.pongTimers[i],
                         stale |-> Discarded(c, c.pongTimers[i])],
              !.isConnected = FALSE,
              !.lastError = "Heartbeat timeout"]

\* The setTimeout callback of the ping: no pong came within PONG_WAIT.
PongTimeoutFired(c, i) ==
    LET p == c.pongTimers[i]
        c1 == [c EXCEPT !.pongTimers[i] = 0,
                        !.fired = [kind |-> "pong", owner |-> p, stale |-> Discarded(c, p)],
                        !.hbClosed = @ \cup {p} \cup
                                     (IF ReadyState(c) \in {"CONNECTING", "OPEN"}
                                      THEN {c.ws} ELSE {}),
                        !.isConnected = FALSE,
                        !.lastError = "Heartbeat timeout"]
    IN Close(c1, c1.ws)

\* onmessage with data.type === 'pong'
OnPong(c) ==
    [ClearPong(c, c.pongTimeout) EXCEPT !.pongTimeout = 0]

(***************************************************************************)
(* useWebSocket (frontend/hooks/useWebSocket.ts).                          *)
(***************************************************************************)
\* connect.current(): the closure made by the effect for the userId it ran with.
H_connect(c) ==
    IF c.isManualClose THEN c
    ELSE NewSocket(Close([c EXCEPT !.lastError = "none"], c.ws), c.connectUid)

\* connect.current?.() and "if (connect.current) connect.current()"
H_connectIfSet(c) == IF c.connectUid = 0 THEN c ELSE H_connect(c)

\* onopen without reconnectAttempts.current = 0.
H_onopen_NoReset(c, s) ==
    LET c1 == [c EXCEPT !.isConnected = TRUE,
                        !.lastError = "none",
                        !.lastDelay = 0,
                        !.since = IF c.reconnectAttempts > 0 THEN "reopen" ELSE "open",
                        !.opened = [sock |-> s, queue |-> c.messageQueue]]
        c2 == flushMessageQueue(c1)
    IN [c2 EXCEPT !.intervals = @ \cup {s}, !.pingInterval = s]

\* ws.current.onopen of socket s
H_onopen(c, s) ==
    LET c1 == [c EXCEPT !.isConnected = TRUE,
                        !.lastError = "none",
                        !.reconnectAttempts = 0,
                        !.lastDelay = 0,
                        !.since = IF c.reconnectAttempts > 0 THEN "reopen" ELSE "open",
                        !.opened = [sock |-> s, queue |-> c.messageQueue]]
        c2 == flushMessageQueue(c1)
    IN [c2 EXCEPT !.intervals = @ \cup {s}, !.pingInterval = s]

\* ws.current.onerror
H_onerror(c) ==
    [c EXCEPT !.isConnected = FALSE, !.lastError = "WebSocket connection error"]

\* onclose that retries after code 1008 too.
H_onclose_Retry1008(c, s, code) ==
    LET c1 == [c EXCEPT !.isConnected = FALSE]
        c2 == IF c1.pingInterval # 0
              THEN [ClearInterval(c1, c1.pingInterval) EXCEPT !.pingInterval = 0]
              ELSE c1
        c3 == IF c2.pongTimeout # 0
              THEN [ClearPong(c2, c2.pongTimeout) EXCEPT !.pongTimeout = 0]
              ELSE c2
        delay == BackoffDelay(FIRST_DELAY_HOOK, c3.reconnectAttempts)
    IN IF c3.isManualClose
       THEN [c3 EXCEPT !.lastError = "Connection closed",
                       !.closed = NotScheduled(c3, s, code)]
       ELSE Scheduled([c3 EXCEPT !.reconnectAttempts = @ + 1,
                                 !.lastError = "Reconnecting",
                                 !.reconnTimers = @ \cup {s},
                                 !.reconnectTimeout = s],
                      s, code, delay)

\* ws.current.onclose of socket s, with event.code = code
H_onclose(c, s, code) ==
    LET c1 == [c EXCEPT !.isConnected = FALSE]
        c2 == IF c1.pingInterval # 0
              THEN [ClearInterval(c1, c1.pingInterval) EXCEPT !.pingInterval = 0]
              ELSE c1
        c3 == IF c2.pongTimeout # 0
              THEN [ClearPong(c2, c2.pongTimeout) EXCEPT !.pongTimeout = 0]
              ELSE c2
        delay == BackoffDelay(FIRST_DELAY_HOOK, c3.reconnectAttempts)
    IN IF c3.isManualClose \/ code = POLICY_VIOLATION
       THEN [c3 EXCEPT !.lastError = IF code = POLICY_VIOLATION
                                     THEN "User not found" ELSE "Connection closed",
                       !.closed = NotScheduled(c3, s, code)]
       ELSE Scheduled([c3 EXCEPT !.reconnectAttempts = @ + 1,
                                 !.lastError = "Reconnecting",
                                 !.reconnTimers = @ \cup {s},
                                 !.reconnectTimeout = s],
                      s, code, delay)

\* handleOnline: isConnected is the value the effect's closure captured
H_handleOnline(c) ==
    IF ~c.closureConnected /\ c.connectUid # 0
    THEN H_connect(ResetAttempts(c))
    ELSE c

\* handleVisibilityChange, with document.visibilityState === 'visible'
H_handleVisibilityChange(c) ==
    IF ReadyState(c) # "OPEN" /\ c.connectUid # 0 /\ ~c.isManualClose
    THEN H_connect(ResetAttempts(c))
    ELSE c

\* handleFocus
H_handleFocus(c) ==
    IF ReadyState(c) # "OPEN" /\ c.connectUid # 0 /\ ~c.isManualClose
    THEN H_connect(ResetAttempts(c))
    ELSE c

\* The effect's cleanup function: the refs keep the ids of the timers it clears.
H_cleanup(c) ==
    LET c1 == Close([c EXCEPT !.isManualClose = TRUE], c.ws)
        c2 == IF c1.pingInterval # 0 THEN ClearInterval(c1, c1.pingInterval) ELSE c1
        c3 == IF c2.pongTimeout # 0 THEN ClearPong(c2, c2.pongTimeout) ELSE c2
        c4 == IF c3.reconnectTimeout # 0 THEN ClearReconnect(c3, c3.reconnectTimeout) ELSE c3
    IN [c4 EXCEPT !.listening = FALSE]

\* The effect's body, for a render with userId = c.userId.
H_effect(c) ==
    IF c.userId = 0 THEN c
    ELSE [H_connect([c EXCEPT !.connectUid = c.userId,
                              !.closureConnected = c.isConnected])
          EXCEPT !.listening = TRUE,
                 !.fired = [kind |-> "effect", owner |-> c.userId, stale |-> FALSE]]

\* disconnect()
H_disconnect(c) ==
    [Close([c EXCEPT !.isManualClose = TRUE], c.ws)
     EXCEPT !.isConnected = FALSE, !.disconnected = TRUE]

\* reconnect()
H_reconnect(c) ==
    H_connectIfSet(ResetAttempts([c EXCEPT !.isManualClose = FALSE,
                                           !.disconnected = FALSE]))

\* The callback of the reconnect timeout set by onclose.
H_reconnectTimer(c) == H_connectIfSet(c)

(***************************************************************************)
(* WebSocketProvider (frontend/contexts/WebSocketContext.tsx).             *)
(***************************************************************************)
\* cleanup(): clears the three timers and nulls their refs
P_cleanup(c) ==
    LET c1 == IF c.pingInterval # 0
              THEN [ClearInterval(c, c.pingInterval) EXCEPT !.pingInterval = 0]
              ELSE c
        c2 == IF c1.pongTimeout # 0
              THEN [ClearPong(c1, c1.pongTimeout) EXCEPT !.pongTimeout = 0]
              ELSE c1
    IN IF c2.reconnectTimeout # 0
       THEN [ClearReconnect(c2, c2.reconnectTimeout) EXCEPT !.reconnectTimeout = 0]
       ELSE c2

\* connectWebSocket(uid)
P_connectWebSocket(c, uid) ==
    IF c.isConnecting THEN c
    ELSE IF c.isManualClose THEN c
    ELSE IF ReadyState(c) = "OPEN" THEN c
    ELSE IF ReadyState(c) = "CONNECTING" THEN c
    ELSE LET c1 == P_cleanup([c EXCEPT !.isConnecting = TRUE, !.lastError = "none"])
             c2 == IF c1.ws # 0
                   THEN [Close([c1 EXCEPT !.sockets[c1.ws].oc = FALSE,
                                          !.sockets[c1.ws].oh = FALSE], c1.ws)
                         EXCEPT !.ws = 0]
                   ELSE c1
         IN NewSocket(c2, uid)

\* ws.current.onopen of socket s
P_onopen(c, s) ==
    LET c1 == [c EXCEPT !.isConnecting = FALSE,
                        !.isConnected = TRUE,
                        !.lastError = "none",
                        !.reconnectAttempts = 0,
                        !.lastDelay = 0,
                        !.since = IF c.reconnectAttempts > 0 THEN "reopen" ELSE "open",
                        !.opened = [sock |-> s, queue |-> c.messageQueue]]
        c2 == flushMessageQueue(c1)
    IN [c2 EXCEPT !.intervals = @ \cup {s}, !.pingInterval = s]

\* ws.current.onerror
P_onerror(c) ==
    [c EXCEPT !.isConnecting = FALSE, !.isConnected = FALSE,
              !.lastError = "WebSocket connection error"]

\* ws.current.onclose of socket s, made by connectWebSocket(uid), with event.code = code
P_onclose(c, s, code) ==
    LET c1 == P_cleanup([c EXCEPT !.isConnecting = FALSE, !.isConnected = FALSE])
        delay == BackoffDelay(FIRST_DELAY_PROVIDER, c1.reconnectAttempts)
    IN IF c1.isManualClose \/ code = POLICY_VIOLATION
       THEN [c1 EXCEPT !.closed = NotScheduled(c1, s, code)]
       ELSE Scheduled([c1 EXCEPT !.reconnectAttempts = @ + 1,
                                 !.lastError = "Reconnecting",
                                 !.reconnTimers = @ \cup {s},
                                 !.reconnectTimeout = s],
                      s, code, delay)

\* The callback of the reconnect timeout set by the onclose of socket t.
P_reconnectTimer(c, t) == P_connectWebSocket(c, c.sockets[t].uid)

\* disconnect()
P_disconnect(c) ==
    LET c1 == P_cleanup([c EXCEPT !.isManualClose = TRUE])
        c2 == IF c1.ws # 0
              THEN [Close([c1 EXCEPT !.sockets[c1.ws].oc = FALSE], c1.ws) EXCEPT !.ws = 0]
              ELSE c1
    IN [c2 EXCEPT !.isConnected = FALSE, !.userId = 0, !.disconnected = TRUE]

\* connect()
P_connect(c) ==
    IF c.localUserId # 0
    THEN P_connectWebSocket(
             [c EXCEPT !.userId = c.localUserId, !.isManualClose = FALSE,
                       !.reconnectAttempts = 0, !.since = "reset",
                       !.disconnected = FALSE],
             c.localUserId)
    ELSE [c EXCEPT !.disconnected = FALSE]

\* checkAuth(), in the effect: the connection is made by a timeout of its own
P_checkAuth(c) ==
    IF c.localUserId # 0 /\ c.userId = 0
    THEN [c EXCEPT !.userId = c.localUserId, !.isManualClose = FALSE,
                   !.mountTimers = @ \cup {c.localUserId}]
    ELSE IF c.localUserId = 0 /\ c.userId # 0 THEN P_disconnect(c)
    ELSE c

\* handleStorageChange for key 'userId' with e.newValue = v (0 = null)
P_handleStorageChange(c, v) ==
    IF v # 0
    THEN P_connectWebSocket([c EXCEPT !.userId = v, !.isManualClose = FALSE,
                                      !.disconnected = FALSE], v)
    ELSE P_disconnect(c)

\* handleOnline
P_handleOnline(c) ==
    IF c.userId # 0 /\ ~c.isConnected /\ ~c.isConnecting
    THEN P_connectWebSocket(ResetAttempts(c), c.userId)
    ELSE c

\* handleVisibilityChange, visible: the check is debounced by a timeout
P_handleVisibilityChange(c) ==
    IF c.userId # 0 THEN [c EXCEPT !.visTimer = c.userId] ELSE c

\* The callback of the visibility timeout, set with userId = uid
P_visibilityTimer(c, uid) ==
    IF ReadyState(c) # "OPEN" /\ ~c.isConnecting /\ ~c.isManualClose
    THEN P_connectWebSocket(ResetAttempts(c), uid)
    ELSE c

\* The cleanup of the unmount effect, after the cleanup of the listeners' effect.
P_unmount(c) ==
    LET c1 == P_cleanup([c EXCEPT !.visTimer = 0, !.listening = FALSE])
    IN [Close(c1, c1.ws) EXCEPT !.ws = 0, !.mounted = FALSE]

\* The effect with dependencies [userId, isConnected, ...] runs again after a
\* render that changed one of them: its cleanup, then checkAuth().
P_effectAgain(before, c) ==
    IF /\ c.impl = "provider" /\ c.mounted /\ c.listening
       /\ (c.userId # before.userId \/ c.isConnected # before.isConnected)
    THEN P_checkAuth([c EXCEPT !.visTimer = 0])
    ELSE c

(***************************************************************************)
(* Dispatch of the browser's events to the handlers attached to a socket.  *)
(***************************************************************************)
OnOpen(c, s) == IF c.impl = "hook" THEN H_onopen(c, s) ELSE P_onopen(c, s)
OnError(c) == IF c.impl = "hook" THEN H_onerror(c) ELSE P_onerror(c)
OnClose(c, s, code) ==
    IF c.impl = "hook" THEN H_onclose(c, s, code) ELSE P_onclose(c, s, code)
ReconnectTimer(c, t) ==
    IF c.impl = "hook" THEN H_reconnectTimer(c) ELSE P_reconnectTimer(c, t)

\* A step ends in the state its handler leaves, within the bounds of the model.
Set(c0) ==
    \E c \in {P_effectAgain(St, c0)} :
       /\ ~c.full
       /\ Len(c.messageQueue) <= scope.queue
       /\ c.reconnectAttempts <= scope.attempts
       /\ \E n \in {Normalize(c)} : SetVars(n)
       /\ UNCHANGED <<scope, ingestVars, pageVars, autoVars>>

(***************************************************************************)
(* Actions of the browser, for either implementation.                      *)
(***************************************************************************)
\* The connection of socket s is established: readyState OPEN, then the open event.
OpenEvent(s) ==
    /\ sockets[s].rs = "CONNECTING"
    /\ LET c0 == [Begin EXCEPT !.sockets[s].rs = "OPEN", !.sockets[s].est = TRUE]
       IN Set(IF c0.sockets[s].oh THEN OnOpen(c0, s) ELSE c0)

\* The connection of socket s ends (closed by the server, lost, or the close the
\* client asked for completes): readyState CLOSED, an error event when it failed,
\* then the close event.
CloseEvent(s, code) ==
    /\ sockets[s].rs \in {"CONNECTING", "OPEN", "CLOSING"}
    /\ code \in CloseCodes(St, s)
    /\ LET c0 == [Begin EXCEPT !.sockets[s].rs = "CLOSED", !.pingOut = @ \ {s},
                               !.inbox = SelectSeq(@, LAMBDA f : f[1] # s)]
           c1 == IF code = ABNORMAL_CLOSURE /\ c0.sockets[s].oh THEN OnError(c0) ELSE c0
       IN Set(IF c1.sockets[s].oc THEN OnClose(c1, s, code) ELSE c1)

\* The server answers a ping on socket s: a message event with type 'pong'.
PongEvent(s) ==
    /\ s \in pingOut
    /\ sockets[s].rs \in {"OPEN", "CLOSING"}
    /\ LET c0 == [Begin EXCEPT !.pingOut = @ \ {s}]
       IN Set(IF c0.sockets[s].oh THEN OnPong(c0) ELSE c0)

\* Interval i fires.  Its previous pong timeout, PONG_WAIT < PING_EVERY after the
\* previous tick, has fired or was cleared by then.
IntervalFires(i) ==
    /\ i \in intervals
    /\ PONG_WAIT < PING_EVERY => pongTimers[i] = 0
    /\ Set(PingTick([Begin EXCEPT !.fired = [kind |-> "ping", owner |-> i,
                                             stale |-> Discarded(St, i)]], i))

\* The pong timeout set by interval i fires.
PongTimeoutFires(i) ==
    /\ pongTimers[i] # 0
    /\ Set(PongTimeoutFired(Begin, i))

\* The reconnect timeout set by the close of socket t fires.
ReconnectTimerFires(t) ==
    /\ t \in reconnTimers
    /\ LET c0 == [Begin EXCEPT !.reconnTimers = @ \ {t},
                               !.fired = [kind |-> "reconnect", owner |-> t,
                                          stale |-> Replaced(St, t)]]
           c1 == ReconnectTimer(c0, t)
       IN Set(c1)

(***************************************************************************)
(* Actions of useWebSocket's user and window.                              *)
(***************************************************************************)
\* The component re-renders with another userId: cleanup of the effect that ran
\* (if one did), then the effect's body.
H_SetUserId(u) ==
    /\ impl = "hook" /\ mounted /\ u # userId
    /\ LET c0 == IF listening THEN H_cleanup(Begin) ELSE Begin
           c1 == H_effect([c0 EXCEPT !.userId = u])
       IN Set(c1)

H_Unmount ==
    /\ impl = "hook" /\ mounted
    /\ Set([(IF listening THEN H_cleanup(Begin) ELSE Begin) EXCEPT !.mounted = FALSE])

H_Online ==
    /\ impl = "hook" /\ listening
    /\ LET c1 == H_handleOnline(Begin) IN Set(c1)

H_VisibilityChange ==
    /\ impl = "hook" /\ listening
    /\ LET c1 == H_handleVisibilityChange(Begin) IN Set(c1)

H_Focus ==
    /\ impl = "hook" /\ listening
    /\ LET c1 == H_handleFocus(Begin) IN Set(c1)

H_Disconnect ==
    /\ impl = "hook" /\ mounted
    /\ Set(H_disconnect(Begin))

H_Reconnect ==
    /\ impl = "hook" /\ mounted
    /\ LET c1 == H_reconnect(Begin) IN Set(c1)

SendMessage(m) ==
    /\ mounted
    /\ LET c1 == sendMessage(Begin, m) IN Set(c1)

(***************************************************************************)
(* Actions of WebSocketProvider's user, pages and window.                  *)
(***************************************************************************)
\* The effect runs for the first time: checkAuth(), and the listeners.
P_Mount ==
    /\ impl = "provider" /\ mounted /\ ~listening
    /\ Set(P_checkAuth([Begin EXCEPT !.listening = TRUE]))

\* The login page: localStorage.setItem('userId', u), then connect().
P_Login(u) ==
    /\ impl = "provider" /\ listening
    /\ Set(P_connect([Begin EXCEPT !.localUserId = u]))

\* DashboardLayout.handleLogout: localStorage.removeItem('userId').
P_Logout ==
    /\ impl = "provider" /\ listening /\ localUserId # 0
    /\ Set([Begin EXCEPT !.localUserId = 0])

P_Connect ==
    /\ impl = "provider" /\ listening
    /\ Set(P_connect(Begin))

P_Disconnect ==
    /\ impl = "provider" /\ listening
    /\ Set(P_disconnect(Begin))

\* Another tab sets or removes localStorage 'userId': the storage event.
P_Storage(v) ==
    /\ impl = "provider" /\ listening /\ v # localUserId
    /\ Set(P_handleStorageChange([Begin EXCEPT !.localUserId = v], v))

P_Online ==
    /\ impl = "provider" /\ listening
    /\ Set(P_handleOnline(Begin))

P_VisibilityChange ==
    /\ impl = "provider" /\ listening
    /\ Set(P_handleVisibilityChange(Begin))

P_VisibilityTimerFires ==
    /\ impl = "provider" /\ visTimer # 0
    /\ Set(P_visibilityTimer([Begin EXCEPT !.visTimer = 0], visTimer))

\* A checkAuth timeout fires: connectWebSocket(uid).
P_MountTimerFires(u) ==
    /\ impl = "provider" /\ u \in mountTimers
    /\ Set(P_connectWebSocket([Begin EXCEPT !.mountTimers = @ \ {u}], u))

P_Unmount ==
    /\ impl = "provider" /\ listening
    /\ Set(P_unmount(Begin))

(***************************************************************************)
(* The identity resolver and the webhook ingestion of the backend          *)
(* (REALTIME_MESSAGING.md, backend/app/routers/webhooks.py).               *)
(* Strings are sequences of character codes; a 32-bit word is <<hi, lo>>,  *)
(* its two 16-bit halves.                                                  *)
(***************************************************************************)
W16 == 65536
Word == Nat \X Nat

\* The operations are functions: an argument is computed once, before its use.
And16[a \in Nat, b \in Nat] ==
    IF a = 0 \/ b = 0 THEN 0
    ELSE (a % 2) * (b % 2) + 2 * And16[a \div 2, b \div 2]
Or16[a \in Nat, b \in Nat] == a + b - And16[a, b]
Xor16[a \in Nat, b \in Nat] == a + b - 2 * And16[a, b]
Not16[a \in Nat] == (W16 - 1) - a

WAnd[x \in Word, y \in Word] == <<And16[x[1], y[1]], And16[x[2], y[2]]>>
WOr[x \in Word, y \in Word] == <<Or16[x[1], y[1]], Or16[x[2], y[2]]>>
WXor[x \in Word, y \in Word] == <<Xor16[x[1], y[1]], Xor16[x[2], y[2]]>>
WNot[x \in Word] == <<Not16[x[1]], Not16[x[2]]>>
\* x + y modulo 2^32
WAdd[x \in Word, y \in Word] ==
    <<(x[1] + y[1] + ((x[2] + y[2]) \div W16)) % W16, (x[2] + y[2]) % W16>>
\* x rotated left by s bits, 0 < s < 32
RotL[x \in Word, s \in Nat] ==
    LET hi == IF s >= 16 THEN x[2] ELSE x[1]
        lo == IF s >= 16 THEN x[1] ELSE x[2]
        p == Pow2(s % 16)
        q == Pow2(16 - (s % 16))
    IN IF s % 16 = 0 THEN <<hi, lo>>
       ELSE <<((hi * p) % W16) + (lo \div q), ((lo * p) % W16) + (hi \div q)>>

\* MD5 (RFC 1321): the shift amounts and the sine table.
MD5_S == <<
    7, 12, 17, 22, 7, 12, 17, 22, 7, 12, 17, 22, 7, 12, 17, 22,
    5, 9, 14, 20, 5, 9, 14, 20, 5, 9, 14, 20, 5, 9, 14, 20,
    4, 11, 16, 23, 4, 11, 16, 23, 4, 11, 16, 23, 4, 11, 16, 23,
    6, 10, 15, 21, 6, 10, 15, 21, 6, 10, 15, 21, 6, 10, 15, 21 >>
MD5_K == <<
    <<55146, 42104>>, <<59591, 46934>>, <<9248, 28891>>, <<49597, 52974>>,
    <<62844, 4015>>, <<18311, 50730>>, <<43056, 17939>>, <<64838, 38145>>,
    <<27008, 39128>>, <<35652, 63407>>, <<65535, 23473>>, <<35164, 55230>>,
    <<27536, 4386>>, <<64920, 29075>>, <<42617, 17294>>, <<18868, 2081>>,
    <<63006, 9570>>, <<49216, 45888>>, <<9822, 23121>>, <<59830, 51114>>,
    <<54831, 4189>>, <<580, 5203>>, <<55457, 59009>>, <<59347, 64456>>,
    <<8673, 52710>>, <<49975, 2006>>, <<62677, 3463>>, <<17754, 5357>>,
    <<43491, 59653>>, <<64751, 41976>>, <<26479, 729>>, <<36138, 19594>>,
    <<65530, 14658>>, <<34673, 63105>>, <<28061, 24866>>, <<64997, 14348>>,
    <<42174, 59972>>, <<19422, 53161>>, <<63163, 19296>>, <<48831, 48240>>,
    <<10395, 32454>>, <<60065, 10234>>, <<54511, 12421>>, <<1160, 7429>>,
    <<55764, 53305>>, <<59099, 39397>>, <<8098, 31992>>, <<50348, 22117>>,
    <<62505, 8772>>, <<17194, 65431>>, <<43924, 9127>>, <<64659, 41017>>,
    <<25947, 22979>>, <<36620, 52370>>, <<65519, 62589>>, <<34180, 24017>>,
    <<28584, 32335>>, <<65068, 59104>>, <<41729, 17172>>, <<19976, 4513>>,
    <<63315, 32386>>, <<48442, 62005>>, <<10967, 53947>>, <<60294, 54161>> >>
MD5_Init == << <<26437, 8961>>, <<61389, 43913>>, <<39098, 56574>>, <<4146, 21622>> >>

MD5_F[i \in Nat, b \in Word, c \in Word, d \in Word] ==
    IF i < 16 THEN WOr[WAnd[b, c], WAnd[WNot[b], d]]
    ELSE IF i < 32 THEN WOr[WAnd[d, b], WAnd[WNot[d], c]]
    ELSE IF i < 48 THEN WXor[b, WXor[c, d]]
    ELSE WXor[c, WOr[b, WNot[d]]]
MD5_G(i) ==
    IF i < 16 THEN i
    ELSE IF i < 32 THEN (5 * i + 1) % 16
    ELSE IF i < 48 THEN (3 * i + 5) % 16
    ELSE (7 * i) % 16

\* Step i (from 0) on state s = <<a, b, c, d>> with the block's 16 words w.
MD5_Step[i \in Nat, s \in Seq(Word), w \in Seq(Word)] ==
    <<s[4],
      WAdd[s[2], RotL[WAdd[WAdd[WAdd[MD5_F[i, s[2], s[3], s[4]], s[1]], MD5_K[i + 1]],
                           w[MD5_G(i) + 1]],
                      MD5_S[i + 1]]],
      s[2],
      s[3]>>

\* Steps i..j-1 on one block with words w, from state s.
MD5_Steps[i \in Nat, j \in Nat, s \in Seq(Word), w \in Seq(Word)] ==
    IF j = i + 1 THEN MD5_Step[i, s, w]
    ELSE MD5_Steps[(i + j) \div 2, j, MD5_Steps[i, (i + j) \div 2, s, w], w]

\* The message padded to a multiple of 64 bytes: 0x80, zeros, the length in bits.
MD5_Pad[bytes \in Seq(Nat)] ==
    bytes \o <<128>> \o [k \in 1..((119 - Len(bytes)) % 64) |-> 0]
          \o <<(8 * Len(bytes)) % 256, ((8 * Len(bytes)) \div 256) % 256,
               (8 * Len(bytes)) \div W16, 0, 0, 0, 0, 0>>

\* Word k (from 0) of the block that starts after byte o: little-endian.
MD5_Word(p, o, k) ==
    <<p[o + 4 * k + 3] + 256 * p[o + 4 * k + 4], p[o + 4 * k + 1] + 256 * p[o + 4 * k + 2]>>

\* h + r, word by word
MD5_Sum[h \in Seq(Word), r \in Seq(Word)] ==
    <<WAdd[h[1], r[1]], WAdd[h[2], r[2]], WAdd[h[3], r[3]], WAdd[h[4], r[4]]>>

\* The blocks of the padded message p that start after byte o, from state h.
MD5_Blocks[p \in Seq(Nat), o \in Nat, h \in Seq(Word)] ==
    IF o >= Len(p) THEN h
    ELSE MD5_Blocks[p, o + 64,
                    MD5_Sum[h, MD5_Steps[0, 64, h, [k \in 1..16 |-> MD5_Word(p, o, k - 1)]]]]

\* The bytes of the state h: each word little-endian.
MD5_Bytes[h \in Seq(Word)] ==
    [k \in 1..16 |->
        LET j == (k - 1) % 4
        IN IF j = 0 THEN h[(k - 1) \div 4 + 1][2] % 256
           ELSE IF j = 1 THEN h[(k - 1) \div 4 + 1][2] \div 256
           ELSE IF j = 2 THEN h[(k - 1) \div 4 + 1][1] % 256
           ELSE h[(k - 1) \div 4 + 1][1] \div 256]

\* hashlib.md5(bytes).digest(): 16 bytes
md5_digest(bytes) == MD5_Bytes[MD5_Blocks[MD5_Pad[bytes], 0, MD5_Init]]

\* Two hex digits (as numbers 0..15) a byte, the high one first.
HexDigits[d \in Seq(Nat)] ==
    [k \in 1..(2 * Len(d)) |-> IF k % 2 = 1 THEN d[(k + 1) \div 2] \div 16 ELSE d[k \div 2] % 16]

\* hashlib.md5(bytes).hexdigest()
hexdigest(bytes) == HexDigits[md5_digest(bytes)]

\* str(n) for an int n >= 0, as character codes
RECURSIVE Decimal(_)
Decimal(n) == IF n < 10 THEN <<48 + n>> ELSE Decimal(n \div 10) \o <<48 + (n % 10)>>

UNDERSCORE == 95
FACEBOOK == <<102, 97, 99, 101, 98, 111, 111, 107>>

\* create_stable_conversation_id(platform, user_id, participant_id)
create_stable_conversation_id(platform, user_id, participant_id) ==
    LET raw_id == platform \o <<UNDERSCORE>> \o Decimal(user_id)
                           \o <<UNDERSCORE>> \o participant_id
    IN SubSeq(hexdigest(raw_id), 1, 16)

\* Sender ids (PSIDs) of the webhook events, as character codes:
\* "34751820478145124", "50583432112924565" and "7".
PSID_A == <<51, 52, 55, 53, 49, 56, 50, 48, 52, 55, 56, 49, 52, 53, 49, 50, 52>>
PSID_B == <<53, 48, 53, 56, 51, 52, 51, 50, 49, 49, 50, 57, 50, 52, 53, 54, 53>>
PSID_C == <<55>>

\* Table connected_accounts: two pages of user 1, a page of user 2, and an
\* inactive account of user 2 for the first page.
ConnectedAccount ==
    { [id |-> 1, platform |-> "facebook", page_id |-> 1, user_id |-> 1, is_active |-> TRUE],
      [id |-> 2, platform |-> "facebook", page_id |-> 2, user_id |-> 1, is_active |-> TRUE],
      [id |-> 3, platform |-> "facebook", page_id |-> 3, user_id |-> 2, is_active |-> TRUE],
      [id |-> 4, platform |-> "facebook", page_id |-> 1, user_id |-> 2, is_active |-> FALSE] }

\* The webhook events the platform delivers, each with a message id (mid) of its
\* own; page 9 has no connected account, and the last event carries no message.
WebhookEvents ==
    { [sender |-> PSID_A, recipient |-> 1, message |-> TRUE, mid |-> 1],
      [sender |-> PSID_A, recipient |-> 2, message |-> TRUE, mid |-> 2],
      [sender |-> PSID_B, recipient |-> 1, message |-> TRUE, mid |-> 3],
      [sender |-> PSID_C, recipient |-> 1, message |-> TRUE, mid |-> 4],
      [sender |-> PSID_C, recipient |-> 3, message |-> TRUE, mid |-> 5],
      [sender |-> PSID_A, recipient |-> 9, message |-> TRUE, mid |-> 6],
      [sender |-> PSID_A, recipient |-> 1, message |-> FALSE, mid |-> 0] }

NoBroadcast == [user_id |-> 0, conversation_id |-> <<>>, id |-> 0]

\* create_stable_conversation_id("facebook", n, sender) is a pure function: its
\* values for the ids and senders of this model, computed once.
StableConversationIds ==
    [n \in {a.user_id : a \in ConnectedAccount} \cup {a.page_id : a \in ConnectedAccount},
     sender \in {e.sender : e \in WebhookEvents}
        |-> create_stable_conversation_id(FACEBOOK, n, sender)]

\* The database as one record.
Db == [messages |-> db_messages, participants |-> db_participants, broadcast |-> broadcast]

\* The accounts the query of handle_facebook_message matches; .first() is one of them.
MatchingAccounts(event) ==
    {a \in ConnectedAccount :
        a.platform = "facebook" /\ a.page_id = event.recipient /\ a.is_active}

\* The handler with the conversation keyed by the account's page.
handle_facebook_message_KeyByPage(db, event, account) ==
    IF ~event.message THEN [db EXCEPT !.broadcast = NoBroadcast]
    ELSE LET conv_id == StableConversationIds[account.page_id, event.sender]
             known == \E p \in db.participants : p.conversation_id = conv_id
             participant == [conversation_id |-> conv_id, participant_id |-> event.sender,
                             user_id |-> account.user_id]
             db_message == [id |-> Len(db.messages) + 1, user_id |-> account.user_id,
                            conversation_id |-> conv_id, message_id |-> event.mid,
                            sender_id |-> event.sender, recipient_id |-> event.recipient]
         IN [messages |-> Append(db.messages, db_message),
             participants |-> IF known THEN db.participants
                              ELSE db.participants \cup {participant},
             broadcast |-> [user_id |-> account.user_id, conversation_id |-> conv_id,
                            id |-> db_message.id]]

\* handle_facebook_message(event, db), once the account is found
handle_facebook_message(db, event, account) ==
    IF ~event.message THEN [db EXCEPT !.broadcast = NoBroadcast]
    ELSE LET conv_id == StableConversationIds[account.user_id, event.sender]
             known == \E p \in db.participants : p.conversation_id = conv_id
             participant == [conversation_id |-> conv_id, participant_id |-> event.sender,
                             user_id |-> account.user_id]
             db_message == [id |-> Len(db.messages) + 1, user_id |-> account.user_id,
                            conversation_id |-> conv_id, message_id |-> event.mid,
                            sender_id |-> event.sender, recipient_id |-> event.recipient]
         IN [messages |-> Append(db.messages, db_message),
             participants |-> IF known THEN db.participants
                              ELSE db.participants \cup {participant},
             broadcast |-> [user_id |-> account.user_id, conversation_id |-> conv_id,
                            id |-> db_message.id]]

\* The webhook delivers event (again): without an account the handler returns.
HandleFacebookMessage(event) ==
    /\ \/ /\ MatchingAccounts(event) = {}
          /\ UNCHANGED <<db_messages, db_participants>>
          /\ broadcast' = NoBroadcast
       \/ \E account \in MatchingAccounts(event) :
             LET db == handle_facebook_message(Db, event, account)
             IN /\ Len(db.messages) <= MaxRows
                /\ db_messages' = db.messages
                /\ db_participants' = db.participants
                /\ broadcast' = db.broadcast
    /\ UNCHANGED <<clientVars, pageVars, autoVars>>

IngestInit ==
    /\ db_messages = <<>>
    /\ db_participants = {}
    /\ broadcast = NoBroadcast

IngestNext == \E event \in WebhookEvents : HandleFacebookMessage(event)

(***************************************************************************)
(* The messages page (frontend/app/dashboard/messages/page.tsx) under      *)
(* WebSocketProvider, and the server it talks to.                          *)
(***************************************************************************)
Convs == 1..NumConvs
Range(q) == {q[k] : k \in 1..Len(q)}

\* The effect without its exists check: the message is appended always.
OnLastMessage_NoExists(msgs, selected, last) ==
    IF last # NoMessage /\ selected = last.conv
    THEN Append(msgs, last.msg)
    ELSE msgs

\* The effect on [lastMessage, workspaceId, selectedConversation]: a new_message
\* of the conversation viewed is appended unless its id is listed already.
OnLastMessage(msgs, selected, last) ==
    IF last # NoMessage /\ selected = last.conv /\ last.msg \notin Range(msgs)
    THEN Append(msgs, last.msg)
    ELSE msgs

\* loadMessages(conversationId): the GET is on its way.
loadMessages(conversationId) ==
    /\ Cardinality(loads) < MaxLoads
    /\ loads' = loads \cup {[conv |-> conversationId, answered |-> FALSE, data |-> <<>>]}

\* The ids of the messages of conversation cv the server holds, in order.
MessagesOf(cv) ==
    LET ids == [k \in 1..Len(store) |-> k]
    IN SelectSeq(ids, LAMBDA k : store[k].conv = cv)

\* handleSelectConversation(cv)
SelectConversation(cv) ==
    /\ listening
    /\ selectedConversation' = cv
    /\ loadMessages(cv)
    /\ messages' = IF cv # selectedConversation
                    THEN OnLastMessage(messages, cv, lastMessage)
                    ELSE messages
    /\ UNCHANGED <<store, clientVars, ingestVars, autoVars>>

\* The polling interval fires: it loads only while the WebSocket is not connected.
PollTick ==
    /\ selectedConversation # 0
    /\ IF ~isConnected
       THEN loadMessages(selectedConversation)
       ELSE UNCHANGED loads
    /\ UNCHANGED <<selectedConversation, messages, store, clientVars, ingestVars, autoVars>>

\* The server answers a GET with the messages of the conversation it holds then.
RestAnswers(r) ==
    /\ r \in loads /\ ~r.answered
    /\ loads' = (loads \ {r}) \cup {[r EXCEPT !.answered = TRUE, !.data = MessagesOf(r.conv)]}
    /\ UNCHANGED <<selectedConversation, messages, store, clientVars, ingestVars, autoVars>>

\* The response arrives: setMessages(uniqueMessages).
RestArrives(r) ==
    /\ r \in loads /\ r.answered
    /\ loads' = loads \ {r}
    /\ messages' = r.data
    /\ UNCHANGED <<selectedConversation, store, clientVars, ingestVars, autoVars>>

\* The sockets of the client the server can send on.
OpenSockets == {s \in SockIds : sockets[s].rs = "OPEN"}

\* A webhook persists a message of conversation cv and broadcasts new_message to
\* the user's open sockets.
Persist(cv) ==
    /\ Len(store) < MaxMsgs
    /\ store' = Append(store, [conv |-> cv,
                                gap |-> /\ OpenSockets = {}
                                        /\ since = "close"
                                        /\ selectedConversation = cv])
    /\ LET c == [St EXCEPT !.inbox =
                     IF OpenSockets = {} THEN @
                     ELSE Append(@, <<CHOOSE s \in OpenSockets : TRUE, cv, Len(store) + 1>>)]
       IN SetVars(c)
    /\ UNCHANGED <<selectedConversation, messages, loads, scope, ingestVars, autoVars>>

\* The new_message frame at the head of the inbox arrives on socket s: the
\* provider's onmessage sets lastMessage, and the page's effect runs.
MessageEvent(s) ==
    /\ inbox # <<>> /\ Head(inbox)[1] = s
    /\ sockets[s].rs = "OPEN" /\ sockets[s].oh
    /\ LET last == [conv |-> Head(inbox)[2], msg |-> Head(inbox)[3]]
       IN /\ SetVars([St EXCEPT !.inbox = Tail(@), !.lastMessage = last])
          /\ messages' = OnLastMessage(messages, selectedConversation, last)
    /\ UNCHANGED <<selectedConversation, store, loads, scope, ingestVars, autoVars>>

PageInit ==
    /\ selectedConversation = 0
    /\ messages = <<>>
    /\ store = <<>>
    /\ loads = {}

\* The page's steps, and the connection's: the provider mounts, connects, loses
\* the connection and reconnects.
PageNext ==
    \/ \E cv \in Convs : SelectConversation(cv)
    \/ PollTick
    \/ \E r \in loads : RestAnswers(r)
    \/ \E r \in loads : RestArrives(r)
    \/ \E cv \in Convs : Persist(cv)
    \/ \E s \in SockIds : MessageEvent(s)
    \/ P_Mount
    \/ \E u \in Users : P_MountTimerFires(u)
    \/ \E s \in SockIds : OpenEvent(s)
    \/ \E s \in SockIds, code \in {NORMAL_CLOSURE, ABNORMAL_CLOSURE} : CloseEvent(s, code)
    \/ \E t \in SockIds : ReconnectTimerFires(t)

(***************************************************************************)
(* The automation engine of the backend: funnels, enrollments, the         *)
(* hierarchy of AI bots and the Scheduler (WORKSPACE_FUNNEL_DESIGN.md; the  *)
(* services of backend/app/services are described there and in the        *)
(* specification).  Strings are sequences of character codes.              *)
(***************************************************************************)
AutoConvs == 1..NumAutoConvs
Slots == 1..MaxInflight
Runs == 1..NumSchedulers

PRICE == <<112, 114, 105, 99, 101>>
COST == <<99, 111, 115, 116>>
HELP == <<104, 101, 108, 112>>
\* The bodies of the inbound messages: "Price?", "help" and "hello".
Bodies == {<<80, 114, 105, 99, 101, 63>>, HELP, <<104, 101, 108, 108, 111>>}

\* Table funnels with its funnel_steps, by step_order.
NoStep == [type |-> "none", minutes |-> 0, bot_id |-> 0, max_messages |-> 0]
funnels ==
    <<[id |-> 1, is_active |-> TRUE, priority |-> 1, keywords |-> {PRICE, COST},
       steps |-> <<[NoStep EXCEPT !.type = "send_message"],
                   [NoStep EXCEPT !.type = "delay", !.minutes = 2],
                   [NoStep EXCEPT !.type = "ai_response", !.bot_id = 7,
                                  !.max_messages = 5]>>],
      [id |-> 2, is_active |-> TRUE, priority |-> 0, keywords |-> {HELP},
       steps |-> <<[NoStep EXCEPT !.type = "delay", !.minutes = 1],
                   [NoStep EXCEPT !.type = "send_message"],
                   [NoStep EXCEPT !.type = "assign_human"]>>]>>
FunnelIds == DOMAIN funnels

\* Table ai_bots with its ai_bot_triggers: the rows an administrator can set up.
BotIds == {1, 7, 9}
BotType(b) ==
    IF b = 1 THEN "workspace_default"
    ELSE IF b = 7 THEN "funnel_specific" ELSE "conversation_override"
Always == [type |-> "always", keywords |-> {}]
Keyword == [type |-> "keyword", keywords |-> {PRICE, COST}]
BotTables ==
    {[b \in BotIds |-> [bot_type |-> BotType(b),
                        is_active |-> IF b = 1 THEN sw[1] ELSE TRUE,
                        auto_respond |-> IF b = 1 THEN sw[2] ELSE FALSE,
                        triggers |-> IF b = 1 THEN trg ELSE <<Keyword>>]] :
        sw \in {<<TRUE, TRUE>>, <<TRUE, FALSE>>, <<FALSE, TRUE>>},
        trg \in {<<Always>>, <<Keyword>>}}

NoSettings == [assigned_bot_id |-> 0, ai_enabled |-> FALSE, human_assigned |-> FALSE]
NoDecision ==
    [key |-> 0, override |-> 0, step |-> "none", replies |-> 0, default |-> 0,
     human |-> FALSE, nominal |-> 0, matched |-> FALSE, bot |-> 0, at |-> 0]

(***************************************************************************)
(* The trigger evaluator.                                                  *)
(***************************************************************************)
Lower(str) == [i \in DOMAIN str |-> IF str[i] \in 65..90 THEN str[i] + 32 ELSE str[i]]

\* hay contains needle as a substring
Contains(hay, needle) ==
    \E o \in 0..(Len(hay) - Len(needle)) :
        \A i \in 1..Len(needle) : hay[o + i] = needle[i]

\* evaluate(trigger, message): keyword is a case-insensitive substring match of
\* any of the keywords; always is true.
evaluate(trigger, body) ==
    IF trigger.type = "always" THEN TRUE
    ELSE \E kw \in trigger.keywords : Contains(Lower(body), Lower(kw))

(***************************************************************************)
(* The hierarchy of bots.                                                  *)
(***************************************************************************)
\* Rule 1: the conversation's override bot: assigned_bot_id with ai_enabled (0 = none).
OverrideBot(k) ==
    IF ai_settings[k].assigned_bot_id # 0 /\ ai_settings[k].ai_enabled
    THEN ai_settings[k].assigned_bot_id
    ELSE 0

\* The active enrollments of conversation k, and the one that counts: that of the
\* funnel of the highest priority (0 = none).
ActiveEnrollments(rows, k) ==
    {i \in DOMAIN rows : rows[i].conversation_id = k /\ rows[i].status = "active"}
ActiveEnrollment(rows, k) ==
    LET act == ActiveEnrollments(rows, k)
    IN IF act = {} THEN 0
       ELSE CHOOSE i \in act :
                \A j \in act :
                    \/ funnels[rows[i].funnel_id].priority > funnels[rows[j].funnel_id].priority
                    \/ /\ funnels[rows[i].funnel_id].priority = funnels[rows[j].funnel_id].priority
                       /\ i <= j
CurrentStep(row) ==
    IF row.current_step \in DOMAIN funnels[row.funnel_id].steps
    THEN funnels[row.funnel_id].steps[row.current_step]
    ELSE NoStep

\* The cap with one reply more allowed.
CapReached_OneMore(row) == row.replies > CurrentStep(row).max_messages

\* The ai_response step's max_messages is reached by the replies of this enrollment.
CapReached(row) == row.replies >= CurrentStep(row).max_messages

\* Rule 3: the workspace's active workspace_default bot with auto_respond (0 = none).
WorkspaceDefault ==
    LET ok == {b \in BotIds : /\ ai_bots[b].bot_type = "workspace_default"
                              /\ ai_bots[b].is_active
                              /\ ai_bots[b].auto_respond}
    IN IF ok = {} THEN 0 ELSE CHOOSE b \in ok : \A c \in ok : b <= c

\* The hierarchy with a funnel step that is not ai_response falling through to
\* the workspace default.
Hierarchy_FallThrough(rows, k) ==
    LET e == ActiveEnrollment(rows, k)
    IN IF OverrideBot(k) # 0 THEN OverrideBot(k)
       ELSE IF e # 0 /\ CurrentStep(rows[e]).type = "ai_response"
                     /\ ~CapReached(rows[e])
            THEN CurrentStep(rows[e]).bot_id
       ELSE WorkspaceDefault

\* The hierarchy with the funnel's bot first.
Hierarchy_FunnelFirst(rows, k) ==
    LET e == ActiveEnrollment(rows, k)
    IN IF e # 0 /\ CurrentStep(rows[e]).type = "ai_response"
       THEN CurrentStep(rows[e]).bot_id
       ELSE IF OverrideBot(k) # 0 THEN OverrideBot(k)
       ELSE WorkspaceDefault

\* "How It Works": the override bot; else, in an active funnel, the bot of the
\* current ai_response step (the workspace default once its max_messages is
\* reached) and no AI response at a step of another type; else the workspace
\* default bot.  0 = no bot.
Hierarchy(rows, k) ==
    LET e == ActiveEnrollment(rows, k)
    IN IF OverrideBot(k) # 0 THEN OverrideBot(k)
       ELSE IF e # 0
            THEN IF CurrentStep(rows[e]).type = "ai_response"
                 THEN IF ~CapReached(rows[e])
                      THEN CurrentStep(rows[e]).bot_id
                      ELSE WorkspaceDefault
                 ELSE 0
       ELSE WorkspaceDefault

\* The gate of the triggers, as a selector: a bot whose triggers do not match
\* gives way to the workspace default.
TriggerGate_Selector(b, body) ==
    IF b # 0 /\ \E i \in DOMAIN ai_bots[b].triggers : evaluate(ai_bots[b].triggers[i], body)
    THEN b
    ELSE IF WorkspaceDefault # 0
            /\ \E i \in DOMAIN ai_bots[WorkspaceDefault].triggers :
                   evaluate(ai_bots[WorkspaceDefault].triggers[i], body)
         THEN WorkspaceDefault
         ELSE 0

\* The gate of the triggers: the bot selected replies only if one of its
\* triggers is true of the message (0 = NoResponse).
TriggerGate(b, body) ==
    IF b # 0 /\ \E i \in DOMAIN ai_bots[b].triggers : evaluate(ai_bots[b].triggers[i], body)
    THEN b
    ELSE 0

\* resolveResponder(conversation_key), for a message: UseBot(b) or NoResponse (0)
resolveResponder(rows, k, body) == TriggerGate(Hierarchy(rows, k), body)

(***************************************************************************)
(* Table funnel_enrollments and the steps of a funnel.                     *)
(***************************************************************************)
NoTime == -1
NewEnrollment(f, k) ==
    [funnel_id |-> f, conversation_id |-> k, current_step |-> 1, status |-> "active",
     next_step_at |-> NoTime, replies |-> 0, sent |-> 0]

\* UNIQUE(funnel_id, conversation_id, status)
Unique(rows) ==
    \A i, j \in DOMAIN rows :
        /\ rows[i].funnel_id = rows[j].funnel_id
        /\ rows[i].conversation_id = rows[j].conversation_id
        /\ rows[i].status = rows[j].status
        => i = j

\* The steps run on entry, from the current step of the row to the first step
\* that does not advance by itself; r = [row, trail].
RECURSIVE RunSteps(_)
RunSteps(r) ==
    LET row == r.row
        step == CurrentStep(row)
        here == [at |-> row.current_step, type |-> step.type, next |-> NoTime]
    IN IF step.type = "send_message"
       THEN RunSteps([row |-> [row EXCEPT !.sent = @ + 1, !.current_step = @ + 1],
                      trail |-> Append(r.trail, here)])
       ELSE IF step.type = "delay"
       THEN [row |-> [row EXCEPT !.next_step_at = now + step.minutes],
             trail |-> Append(r.trail, [here EXCEPT !.next = now + step.minutes])]
       ELSE IF step.type = "assign_human"
       THEN [row |-> [row EXCEPT !.status = "paused"], trail |-> Append(r.trail, here)]
       ELSE IF step.type = "ai_response"
       THEN [row |-> row, trail |-> Append(r.trail, here)]
       ELSE [row |-> [row EXCEPT !.status = "completed"],
             trail |-> Append(r.trail, [here EXCEPT !.type = "completed"])]

\* assign_human disables the automation of the conversation.
FlagHumans(rows) ==
    [k \in AutoConvs |->
        IF \E i \in DOMAIN rows :
               /\ rows[i].conversation_id = k /\ rows[i].status = "paused"
               /\ (i \notin DOMAIN enrollments \/ enrollments[i].status # "paused")
        THEN [ai_settings[k] EXCEPT !.human_assigned = TRUE]
        ELSE ai_settings[k]]

\* The rows are written unless the UNIQUE constraint refuses them.
WriteEnrollments(rows, did) ==
    IF Unique(rows)
    THEN /\ enrollments' = rows
         /\ ai_settings' = FlagHumans(rows)
         /\ trail' = did
         /\ rejected' = "none"
    ELSE /\ UNCHANGED <<enrollments, ai_settings>>
         /\ trail' = <<>>
         /\ rejected' = rows[CHOOSE i \in DOMAIN rows :
                                    i \notin DOMAIN enrollments \/ rows[i] # enrollments[i]].status

\* Enrollment of conversation k in funnel f: the row, and the steps run on entry.
Enrolled(rows, f, k) ==
    LET r == RunSteps([row |-> NewEnrollment(f, k),
                       trail |-> <<[at |-> 1, type |-> "enrolled", next |-> NoTime]>>])
    IN [rows |-> Append(rows, r.row), trail |-> r.trail]

\* The active funnels whose trigger is true of the message, and the one that
\* wins: the highest priority, then the lowest id (0 = none).
MatchingFunnels(body) ==
    {f \in FunnelIds : /\ funnels[f].is_active
                       /\ evaluate([type |-> "keyword", keywords |-> funnels[f].keywords], body)}
WinningFunnel(body) ==
    LET m == MatchingFunnels(body)
    IN IF m = {} THEN 0
       ELSE CHOOSE f \in m :
                \A g \in m : \/ funnels[f].priority > funnels[g].priority
                             \/ funnels[f].priority = funnels[g].priority /\ f <= g

(***************************************************************************)
(* The ingestion pipeline, steps 4 to 6, one conversation key at a time.   *)
(***************************************************************************)
Idle == [pc |-> "idle", key |-> 0, body |-> <<>>]
NoRun == [pc |-> "idle", id |-> 0, step |-> 0, status |-> "none"]
Resolving(k) == {i \in Slots : ingestions[i].pc = "resolving" /\ ingestions[i].key = k}

\* The webhook hands an inbound message of conversation k to the pipeline.
Arrive(i, k, body) ==
    /\ i <= autoscope.slots
    /\ ingestions[i].pc = "idle"
    /\ \A j \in 1..(i - 1) : ingestions[j].pc # "idle"
    /\ ingestions' = [ingestions EXCEPT ![i] = [pc |-> "waiting", key |-> k, body |-> body]]
    /\ decision' = NoDecision
    /\ trail' = <<>>
    /\ rejected' = "none"
    /\ UNCHANGED <<now, ai_bots, ai_settings, enrollments, schedulers>>
    /\ UNCHANGED <<autoscope, clientVars, ingestVars, pageVars>>

\* The automation resolution entered without the lock of the key.
EnterResolution_NoLock(i) ==
    /\ ingestions[i].pc = "waiting"
    /\ ingestions' = [ingestions EXCEPT ![i].pc = "resolving"]
    /\ decision' = NoDecision
    /\ trail' = <<>>
    /\ rejected' = "none"
    /\ UNCHANGED <<now, ai_bots, ai_settings, enrollments, schedulers>>
    /\ UNCHANGED <<autoscope, clientVars, ingestVars, pageVars>>

\* The message enters the automation resolution: it takes the lock of its key.
EnterResolution(i) ==
    /\ ingestions[i].pc = "waiting"
    /\ Resolving(ingestions[i].key) = {}
    /\ ingestions' = [ingestions EXCEPT ![i].pc = "resolving"]
    /\ decision' = NoDecision
    /\ trail' = <<>>
    /\ rejected' = "none"
    /\ UNCHANGED <<now, ai_bots, ai_settings, enrollments, schedulers>>
    /\ UNCHANGED <<autoscope, clientVars, ingestVars, pageVars>>

\* Steps 4 to 6 for the message of slot i, and the lock released:
\*   4. with no active enrollment, the winning funnel enrolls the conversation
\*      and its steps run up to the first that waits;
\*   6. resolveResponder; a reply of the funnel step's bot counts against the
\*      step's max_messages.
Resolve(i) ==
    /\ ingestions[i].pc = "resolving"
    /\ LET k == ingestions[i].key
           body == ingestions[i].body
           f == WinningFunnel(body)
           step4 == IF ActiveEnrollments(enrollments, k) = {} /\ f # 0
                    THEN Enrolled(enrollments, f, k)
                    ELSE [rows |-> enrollments, trail |-> <<>>]
           rows1 == step4.rows
           e == ActiveEnrollment(rows1, k)
           ai == e # 0 /\ CurrentStep(rows1[e]).type = "ai_response"
           nominal == Hierarchy(rows1, k)
           bot == TriggerGate(nominal, body)
           byFunnel == /\ OverrideBot(k) = 0 /\ ai /\ ~CapReached(rows1[e])
                       /\ bot # 0
           rows2 == IF byFunnel THEN [rows1 EXCEPT ![e].replies = @ + 1] ELSE rows1
       IN /\ Len(rows2) <= autoscope.rows
          /\ WriteEnrollments(rows2, step4.trail)
          /\ decision' =
                 [key |-> k, override |-> OverrideBot(k),
                  step |-> IF e = 0 THEN "none" ELSE CurrentStep(rows1[e]).type,
                  replies |-> IF e = 0 THEN 0 ELSE rows1[e].replies,
                  default |-> WorkspaceDefault,
                  human |-> ai_settings[k].human_assigned,
                  nominal |-> nominal,
                  matched |-> /\ nominal # 0
                              /\ \E j \in DOMAIN ai_bots[nominal].triggers :
                                     evaluate(ai_bots[nominal].triggers[j], body),
                  bot |-> bot, at |-> e]
    /\ ingestions' = [ingestions EXCEPT ![i] = Idle]
    /\ UNCHANGED <<now, ai_bots, schedulers>>
    /\ UNCHANGED <<autoscope, clientVars, ingestVars, pageVars>>

(***************************************************************************)
(* The Scheduler.                                                          *)
(***************************************************************************)
\* The enrollments at a delay step, over or not.
Due_Early == {id \in DOMAIN enrollments :
                 /\ enrollments[id].status = "active"
                 /\ CurrentStep(enrollments[id]).type = "delay"}

\* The enrollments whose delay is over: next_step_at <= now.
Due == {id \in DOMAIN enrollments :
           /\ enrollments[id].status = "active"
           /\ CurrentStep(enrollments[id]).type = "delay"
           /\ enrollments[id].next_step_at # NoTime
           /\ enrollments[id].next_step_at <= now}

\* A run of the Scheduler polls and reads an enrollment that is due.
SchedulerReads(w, id) ==
    /\ w <= autoscope.runs
    /\ schedulers[w].pc = "idle"
    /\ \A v \in 1..(w - 1) : schedulers[v].pc # "idle"
    /\ id \in Due
    /\ schedulers' = [schedulers EXCEPT ![w] =
           [pc |-> "read", id |-> id, step |-> enrollments[id].current_step,
            status |-> enrollments[id].status]]
    /\ decision' = NoDecision
    /\ trail' = <<>>
    /\ rejected' = "none"
    /\ UNCHANGED <<now, ai_bots, ai_settings, enrollments, ingestions>>
    /\ UNCHANGED <<autoscope, clientVars, ingestVars, pageVars>>

\* The run advances the enrollment it read by compare-and-swap on its
\* current_step and status: the run that finds them changed does nothing.
SchedulerAdvances(w) ==
    /\ schedulers[w].pc = "read"
    /\ LET id == schedulers[w].id
           r == RunSteps([row |-> [enrollments[id] EXCEPT !.current_step = @ + 1,
                                                          !.next_step_at = NoTime],
                          trail |-> <<>>])
       IN IF /\ enrollments[id].current_step = schedulers[w].step
             /\ enrollments[id].status = schedulers[w].status
          THEN WriteEnrollments([enrollments EXCEPT ![id] = r.row], r.trail)
          ELSE /\ UNCHANGED <<enrollments, ai_settings>>
               /\ trail' = <<[at |-> schedulers[w].step, type |-> "lost", next |-> NoTime]>>
               /\ rejected' = "none"
    /\ schedulers' = [schedulers EXCEPT ![w] = NoRun]
    /\ decision' = NoDecision
    /\ UNCHANGED <<now, ai_bots, ingestions>>
    /\ UNCHANGED <<autoscope, clientVars, ingestVars, pageVars>>

\* A minute passes.
Tick ==
    /\ now < MaxTime
    /\ now' = now + 1
    /\ decision' = NoDecision
    /\ trail' = <<>>
    /\ rejected' = "none"
    /\ UNCHANGED <<ai_bots, ai_settings, enrollments, ingestions, schedulers>>
    /\ UNCHANGED <<autoscope, clientVars, ingestVars, pageVars>>

(***************************************************************************)
(* The administrator and the human agent, through the API.                 *)
(***************************************************************************)
\* updateAIBot / the bots' triggers: the bots are set up before the traffic.
AdminSetsBots(tbl) ==
    /\ tbl # ai_bots
    /\ enrollments = <<>>
    /\ \A i \in Slots : ingestions[i] = Idle
    /\ ai_bots' = tbl
    /\ decision' = NoDecision
    /\ trail' = <<>>
    /\ rejected' = "none"
    /\ UNCHANGED <<now, ai_settings, enrollments, ingestions, schedulers>>
    /\ UNCHANGED <<autoscope, clientVars, ingestVars, pageVars>>

\* updateConversationAISettings: assigned_bot_id (0 = null) and ai_enabled.
SetOverride(k, b, en) ==
    /\ <<b, en>> # <<ai_settings[k].assigned_bot_id, ai_settings[k].ai_enabled>>
    /\ ai_settings' = [ai_settings EXCEPT ![k].assigned_bot_id = b, ![k].ai_enabled = en]
    /\ decision' = NoDecision
    /\ trail' = <<>>
    /\ rejected' = "none"
    /\ UNCHANGED <<now, ai_bots, enrollments, ingestions, schedulers>>
    /\ UNCHANGED <<autoscope, clientVars, ingestVars, pageVars>>

\* A human clears the flag that assign_human set.
HumanClears(k) ==
    /\ ai_settings[k].human_assigned
    /\ ai_settings' = [ai_settings EXCEPT ![k].human_assigned = FALSE]
    /\ decision' = NoDecision
    /\ trail' = <<>>
    /\ rejected' = "none"
    /\ UNCHANGED <<now, ai_bots, enrollments, ingestions, schedulers>>
    /\ UNCHANGED <<autoscope, clientVars, ingestVars, pageVars>>

\* enrollConversation: POST /funnels/enrollments
EnrollConversation(f, k) ==
    /\ Len(enrollments) < autoscope.rows
    /\ LET r == Enrolled(enrollments, f, k) IN WriteEnrollments(r.rows, r.trail)
    /\ decision' = NoDecision
    /\ UNCHANGED <<now, ai_bots, ingestions, schedulers>>
    /\ UNCHANGED <<autoscope, clientVars, ingestVars, pageVars>>

\* updateEnrollment: PATCH /funnels/enrollments/{id} with a status
UpdateEnrollment(id, status) ==
    /\ id \in DOMAIN enrollments
    /\ enrollments[id].status \in {"active", "paused"}
    /\ WriteEnrollments([enrollments EXCEPT ![id].status = status],
                        <<[at |-> enrollments[id].current_step, type |-> status,
                           next |-> NoTime]>>)
    /\ decision' = NoDecision
    /\ UNCHANGED <<now, ai_bots, ingestions, schedulers>>
    /\ UNCHANGED <<autoscope, clientVars, ingestVars, pageVars>>

AutoInit(slots, runs, rows) ==
    /\ autoscope = [slots |-> slots, runs |-> runs, rows |-> rows]
    /\ now = 0
    /\ ai_bots = [b \in BotIds |-> [bot_type |-> BotType(b), is_active |-> TRUE,
                                    auto_respond |-> b = 1,
                                    triggers |-> IF b = 1 THEN <<Always>>
                                                 ELSE <<Keyword>>]]
    /\ ai_settings = [k \in AutoConvs |-> NoSettings]
    /\ enrollments = <<>>
    /\ ingestions = [i \in Slots |-> Idle]
    /\ schedulers = [w \in Runs |-> NoRun]
    /\ decision = NoDecision
    /\ trail = <<>>
    /\ rejected = "none"

\* The funnels at work, with the bots as they were set up.
FunnelNext ==
    \/ \E i \in Slots, k \in AutoConvs, body \in Bodies : Arrive(i, k, body)
    \/ \E i \in Slots : EnterResolution(i)
    \/ \E i \in Slots : Resolve(i)
    \/ \E w \in Runs, id \in 1..MaxEnrollments : SchedulerReads(w, id)
    \/ \E w \in Runs : SchedulerAdvances(w)
    \/ Tick
    \/ \E k \in AutoConvs : HumanClears(k)
    \/ \E f \in FunnelIds, k \in AutoConvs : EnrollConversation(f, k)
    \/ \E id \in 1..MaxEnrollments, status \in {"completed", "exited"} :
          UpdateEnrollment(id, status)

\* The same, with the bots and the overrides edited.
AutoNext ==
    \/ FunnelNext
    \/ \E tbl \in BotTables : AdminSetsBots(tbl)
    \/ \E k \in AutoConvs, b \in {0, 9}, en \in BOOLEAN : SetOverride(k, b, en)

(***************************************************************************)
(* The client specification.                                               *)
(***************************************************************************)
SystemInit(q, a, n, slots, runs, rows) ==
    /\ scope = [queue |-> q, attempts |-> a, sockets |-> n]
    /\ IngestInit
    /\ PageInit
    /\ AutoInit(slots, runs, rows)
    /\ impl \in {"hook", "provider"}
    /\ mounted = TRUE
    /\ userId = 0
    /\ localUserId \in (IF impl = "provider" THEN 0..NumUsers ELSE {0})
    /\ isConnected = FALSE
    /\ lastError = "none"
    /\ ws = 0
    /\ pingInterval = 0
    /\ pongTimeout = 0
    /\ reconnectTimeout = 0
    /\ reconnectAttempts = 0
    /\ messageQueue = <<>>
    /\ isManualClose = FALSE
    /\ isConnecting = FALSE
    /\ connectUid = 0
    /\ listening = FALSE
    /\ closureConnected = FALSE
    /\ sockets = [s \in SockIds |-> NoSocket]
    /\ intervals = {}
    /\ pongTimers = [i \in SockIds |-> 0]
    /\ reconnTimers = {}
    /\ mountTimers = {}
    /\ visTimer = 0
    /\ pingOut = {}
    /\ inbox = <<>>
    /\ lastMessage = NoMessage
    /\ wire = <<>>
    /\ opened = NoOpen
    /\ fired = NoFire
    /\ closed = NoClose
    /\ lastDelay = 0
    /\ since = "start"
    /\ hbClosed = {}
    /\ disconnected = FALSE
    /\ queuedBy = <<>>

ClientInit(q, a, n) ==
    SystemInit(q, a, n, FewInflight, FewSchedulers, FewEnrollments)

ClientNext ==
    \/ \E s \in SockIds : OpenEvent(s)
    \/ \E s \in SockIds, code \in {NORMAL_CLOSURE, NO_STATUS, ABNORMAL_CLOSURE, POLICY_VIOLATION} :
          CloseEvent(s, code)
    \/ \E s \in SockIds : PongEvent(s)
    \/ \E i \in SockIds : IntervalFires(i)
    \/ \E i \in SockIds : PongTimeoutFires(i)
    \/ \E t \in SockIds : ReconnectTimerFires(t)
    \/ \E u \in 0..NumUsers : H_SetUserId(u)
    \/ H_Unmount
    \/ H_Online
    \/ H_VisibilityChange
    \/ H_Focus
    \/ H_Disconnect
    \/ H_Reconnect
    \/ \E m \in Messages : SendMessage(m)
    \/ P_Mount
    \/ \E u \in Users : P_Login(u)
    \/ P_Logout
    \/ P_Connect
    \/ P_Disconnect
    \/ \E v \in 0..NumUsers : P_Storage(v)
    \/ P_Online
    \/ P_VisibilityChange
    \/ P_VisibilityTimerFires
    \/ \E u \in Users : P_MountTimerFires(u)
    \/ P_Unmount

Init == ClientInit(FewQueued, FewAttempts, MaxSockets)
Spec == Init /\ [][ClientNext]_vars

\* The client with messages queued while it is disconnected.
QueueInit == ClientInit(MaxQueue, QueueAttempts, QueueSockets)
SpecQueue == QueueInit /\ [][ClientNext]_vars

\* The client through enough failed attempts to reach the cap of the backoff.
BackoffInit == ClientInit(FewQueued, MaxAttempts, MaxSockets)
SpecBackoff == BackoffInit /\ [][ClientNext]_vars

\* The hook on a network that does not fail: every connection attempt is
\* accepted, and a connection ends only when the client closed it.  The browser
\* delivers the open and close events and runs the timers that are due; what
\* the user and the window do is up to them.
Opens == \E s \in SockIds : OpenEvent(s)
Closings ==
    \E s \in SockIds, code \in {NO_STATUS, ABNORMAL_CLOSURE} :
        sockets[s].rs = "CLOSING" /\ CloseEvent(s, code)
ReconnectTimers == \E t \in SockIds : ReconnectTimerFires(t)
Browser == Opens \/ Closings \/ ReconnectTimers
BrowserFair == WF_vars(Opens) /\ WF_vars(Closings) /\ WF_vars(ReconnectTimers)

UserOfHook ==
    \/ \E u \in 0..NumUsers : H_SetUserId(u)
    \/ H_Online
    \/ H_VisibilityChange
    \/ H_Focus
    \/ H_Reconnect

HookLiveNext == Browser \/ UserOfHook

HookLiveInit ==
    /\ ClientInit(FewQueued, FewAttempts, MaxSockets)
    /\ impl = "hook"
SpecHookLive == HookLiveInit /\ [][HookLiveNext]_vars /\ BrowserFair

\* The provider on a network that does not fail (no close event reaches its
\* onclose, so no reconnect timer is set): React runs the mounted effect, the
\* timeouts of checkAuth and of the visibility handler fire, and every ping is
\* answered.
MountTimers == \E u \in Users : P_MountTimerFires(u)
Pings == \E i \in SockIds : IntervalFires(i)
Pongs == \E s \in SockIds : PongEvent(s)
Runtime ==
    Opens \/ Closings \/ P_Mount \/ MountTimers \/ P_VisibilityTimerFires \/ Pings \/ Pongs
RuntimeFair ==
    /\ WF_vars(Opens)
    /\ WF_vars(Closings)
    /\ WF_vars(P_Mount)
    /\ WF_vars(MountTimers)
    /\ WF_vars(P_VisibilityTimerFires)
    /\ WF_vars(Pings)
    /\ WF_vars(Pongs)

UserOfProvider ==
    \/ \E u \in Users : P_Login(u)
    \/ P_Logout
    \/ P_Online
    \/ P_VisibilityChange

ProviderLiveNext == Runtime \/ UserOfProvider

ProviderLiveInit ==
    /\ ClientInit(FewQueued, FewAttempts, MaxSockets)
    /\ impl = "provider"
SpecProviderLive == ProviderLiveInit /\ [][ProviderLiveNext]_vars /\ RuntimeFair

\* The provider of a browser in which one user after another logs in, with
\* messages queued while it is disconnected.
Accounts == 1..MaxUsers
UsersNext ==
    \/ \E s \in SockIds : OpenEvent(s)
    \/ \E s \in SockIds, code \in {NORMAL_CLOSURE, ABNORMAL_CLOSURE} : CloseEvent(s, code)
    \/ \E t \in SockIds : ReconnectTimerFires(t)
    \/ \E m \in Messages : SendMessage(m)
    \/ P_Mount
    \/ \E u \in Accounts : P_Login(u)
    \/ P_Logout
    \/ P_Connect
    \/ P_Disconnect
    \/ \E v \in 0..MaxUsers : P_Storage(v)
    \/ P_Online
    \/ \E u \in Accounts : P_MountTimerFires(u)

UsersSpecInit ==
    /\ ClientInit(UsersQueued, QueueAttempts, QueueSockets)
    /\ impl = "provider"
SpecUsers == UsersSpecInit /\ [][UsersNext]_vars

\* The messages page under the provider of a logged-in user.
PageSpecInit ==
    /\ ClientInit(FewQueued, FewAttempts, QueueSockets)
    /\ impl = "provider"
    /\ localUserId = 1
SpecPage == PageSpecInit /\ [][PageNext]_vars

\* The webhook ingestion, with the client idle.
IngestSpecInit ==
    /\ ClientInit(FewQueued, FewAttempts, MaxSockets)
    /\ impl = "hook"
SpecIngest == IngestSpecInit /\ [][IngestNext]_vars

\* The automation engine, with the client idle.
AutoSpecInit ==
    /\ SystemInit(FewQueued, FewAttempts, MaxSockets,
                  FewInflight, FewSchedulers, FewEnrollments)
    /\ impl = "hook"
SpecAuto == AutoSpecInit /\ [][AutoNext]_vars

\* The funnels with concurrent ingestions and Scheduler runs; the client idle.
FunnelSpecInit ==
    /\ SystemInit(FewQueued, FewAttempts, MaxSockets,
                  MaxInflight, NumSchedulers, FewEnrollments)
    /\ impl = "hook"
SpecFunnel == FunnelSpecInit /\ [][FunnelNext]_vars

\* The enrollments of a conversation, one after the other, with concurrent
\* Scheduler runs; the client idle.
EnrollSpecInit ==
    /\ SystemInit(FewQueued, FewAttempts, MaxSockets,
                  FewInflight, NumSchedulers, MaxEnrollments)
    /\ impl = "hook"
SpecEnroll == EnrollSpecInit /\ [][FunnelNext]_vars

(***************************************************************************)
(* Properties of the client.  wire, opened, fired and closed describe the  *)
(* step that led to the state, so each property reads as: whenever a step  *)
(* of that kind has just been taken, ...                                   *)
(***************************************************************************)
\* The frames that send the messages of queue q on socket s, in order, once each.
FramesOf(s, q) == [k \in 1..Len(q) |-> <<s, q[k]>>]

\* C1: when a socket opens, its open handler sends every message that was queued
\* while no socket was OPEN on the new socket, once each and in the order of
\* the sendMessage calls, and nothing else (the first ping and every later
\* message are sent by later steps); the queue is empty afterwards.
C1_OpenFlushesQueue ==
    opened.sock # 0 =>
        /\ wire = FramesOf(opened.sock, opened.queue)
        /\ messageQueue = <<>>

\* C2: when a pong timeout fires (a ping was sent on a session and no pong came
\* within PONG_WAIT), the pinged session is no longer open or connecting and
\* the reason 'Heartbeat timeout' is recorded; and no ping is sent on a session
\* a heartbeat timeout closed.
C2_HeartbeatTimeoutCloses ==
    /\ fired.kind = "pong" =>
           /\ fired.owner # 0 => sockets[fired.owner].rs \notin {"CONNECTING", "OPEN"}
           /\ lastError = "Heartbeat timeout"
    /\ \A k \in 1..Len(wire) : wire[k][2] = "ping" => wire[k][1] \notin hbClosed
C2_TimeoutClosedPingedSession ==
    /\ fired.kind = "pong"
    /\ fired.owner # 0
    /\ ws = fired.owner
    /\ sockets[fired.owner].rs = "CLOSING"
    /\ fired.owner \in hbClosed

\* C3 (as claimed): a session the server closed cleanly (code 1000, and no
\* heartbeat timeout closed it) never has a reconnect attempt scheduled by its
\* close handler.
C3_CleanCloseNotRetried ==
    closed.sock # 0 /\ closed.code = NORMAL_CLOSURE /\ ~closed.hb => ~closed.scheduled
\* C3 (amended): a close handler schedules a reconnect attempt exactly when the
\* close was not a manual one (disconnect() or the effect's cleanup) and its
\* code is not 1008, whether the closure was clean, a heartbeat timeout or a
\* transport failure.
C3_RetryUnlessManualOr1008 ==
    closed.sock # 0 =>
        (closed.scheduled <=> ~closed.manual /\ closed.code # POLICY_VIOLATION)
C3_CleanCloseRetried ==
    closed.sock # 0 /\ closed.code = NORMAL_CLOSURE /\ ~closed.hb /\ closed.scheduled

\* The delay that follows delay d in the claimed sequence.
NextDelay(d) == IF d < BACKOFF_BASE THEN BACKOFF_BASE ELSE Min(2 * d, BACKOFF_CAP)

\* C4 (as claimed): a closure that follows another with no successful open in
\* between is retried after the delay that follows the previous one in the
\* sequence first, 1 s, 2 s, 4 s, 8 s, 10 s, 10 s, ...: never more than 10 s
\* and never less than the previous delay.
C4_DelaysNeverDecrease ==
    closed.scheduled =>
        /\ closed.delay <= BACKOFF_CAP
        /\ closed.prev = 0 => closed.delay <= FIRST_DELAY_PROVIDER
        /\ closed.prev # 0 => closed.delay = NextDelay(closed.prev)
\* C4 (amended): the same, for closures with no successful open and no reset of
\* the attempt counter (online, visibility, focus, reconnect(), connect()) in
\* between; after such a reset the next delay is the first-retry delay again.
C4_DelaysWithoutReset ==
    closed.scheduled =>
        /\ closed.delay <= BACKOFF_CAP
        /\ closed.prev = 0 => closed.delay <= FIRST_DELAY_PROVIDER
        /\ closed.prev # 0 /\ closed.since = "close" =>
               /\ closed.delay = NextDelay(closed.prev)
               /\ closed.delay >= closed.prev
        /\ closed.since = "reset" => closed.delay = FirstDelay(St)
C4_CapReachedTwice ==
    closed.scheduled /\ closed.since = "close"
        /\ closed.prev = BACKOFF_CAP /\ closed.delay = BACKOFF_CAP

\* C5: a successful open leaves the attempt counter at zero, and the first
\* closure after a successful open is retried after the first-retry delay,
\* whatever number of failed attempts preceded that open.
C5_OpenResetsBackoff ==
    /\ opened.sock # 0 => reconnectAttempts = 0
    /\ closed.scheduled /\ closed.since \in {"open", "reopen"} =>
           closed.delay = FirstDelay(St)
C5_ClosureAfterReopen ==
    closed.scheduled /\ closed.since = "reopen" /\ closed.delay = FirstDelay(St)

\* C6: no ping interval or pong timeout fires once the session it was created
\* for is closed or discarded, and no reconnect timer fires once the session
\* it was created for was replaced, disconnect() was called or the component
\* unmounted.
C6_NoTimerAfterDiscard ==
    fired.kind # "none" => ~fired.stale

(***************************************************************************)
(* Properties of the identity resolver and the ingestion.                  *)
(***************************************************************************)
Rows == 1..Len(db_messages)

\* C8: messages of the same external participant to the same owner are filed
\* under the same conversation key, through whichever connected account or
\* page they were received.
C8_KeyIndependentOfAccount ==
    \A i, j \in Rows :
        /\ db_messages[i].user_id = db_messages[j].user_id
        /\ db_messages[i].sender_id = db_messages[j].sender_id
        => db_messages[i].conversation_id = db_messages[j].conversation_id
C8_SameSenderTwoPages ==
    \E i, j \in Rows :
        /\ db_messages[i].user_id = db_messages[j].user_id
        /\ db_messages[i].sender_id = db_messages[j].sender_id
        /\ db_messages[i].recipient_id # db_messages[j].recipient_id
        /\ db_messages[i].conversation_id = db_messages[j].conversation_id

\* C9: messages of different participants (or to different owners) are never
\* filed under one conversation key.
C9_DistinctKeys ==
    \A i, j \in Rows :
        \/ db_messages[i].user_id # db_messages[j].user_id
        \/ db_messages[i].sender_id # db_messages[j].sender_id
        => db_messages[i].conversation_id # db_messages[j].conversation_id

\* C10: however often an event is delivered, table messages holds one row for
\* its platform message id.
C10_OneRowPerMessageId ==
    \A i, j \in Rows :
        db_messages[i].message_id = db_messages[j].message_id => i = j

(***************************************************************************)
(* Properties of the messages page.                                        *)
(***************************************************************************)
\* C7: once the connection is up again and nothing is on its way (no GET in
\* flight, no frame undelivered), every message persisted for the conversation
\* viewed after a close and before the next open is in the message list: while
\* the connection stays up, only a new event or the user changes the list.
C7_GapMessagesListed ==
    isConnected /\ loads = {} /\ inbox = <<>> =>
        \A k \in 1..Len(store) :
            store[k].gap /\ store[k].conv = selectedConversation => k \in Range(messages)

(***************************************************************************)
(* Properties of the automation engine.                                    *)
(***************************************************************************)
\* The last step resolved the responder for a message of a conversation.
Resolved == decision.key # 0

\* C11: for a conversation whose settings have assigned_bot_id set and
\* ai_enabled true, the hierarchy selects that bot, whatever the enrollment and
\* the workspace default: the bot that replies is the override bot or none.
C11_OverrideFirst ==
    Resolved /\ ai_settings[decision.key].assigned_bot_id # 0
             /\ ai_settings[decision.key].ai_enabled =>
        /\ decision.nominal = ai_settings[decision.key].assigned_bot_id
        /\ decision.bot \in {0, ai_settings[decision.key].assigned_bot_id}

\* The override bot replied to a conversation whose active enrollment was at
\* an ai_response step below its cap, with a workspace default bot in place.
C11_OverrideOverFunnelBot ==
    /\ Resolved /\ decision.override = 9 /\ decision.bot = 9
    /\ decision.step = "ai_response" /\ decision.replies = 0 /\ decision.default = 1

\* The enrollment the last step resolved against, and its step's max_messages.
ResolvedRow == enrollments[decision.at]
MaxMessages == CurrentStep(ResolvedRow).max_messages

\* C12: with no override, a conversation whose active enrollment is at an
\* ai_response step that already produced max_messages replies is not answered
\* by the funnel's bot: the hierarchy gives the workspace default bot (active,
\* auto_respond) if there is one, and no bot otherwise.
C12_CappedStepFallsToDefault ==
    /\ Resolved /\ decision.override = 0 /\ decision.step = "ai_response"
    /\ decision.replies >= MaxMessages
    => /\ decision.nominal = WorkspaceDefault
       /\ decision.bot \in {0, WorkspaceDefault}
       /\ ResolvedRow.replies = decision.replies

\* The fifth reply of bot 7 was given, and the next message went to the
\* workspace default bot.
C12_DefaultAfterCap ==
    /\ Resolved /\ decision.override = 0 /\ decision.step = "ai_response"
    /\ decision.replies = 5 /\ MaxMessages = 5 /\ decision.bot = 1

\* The last step resolved, with no override, for a conversation whose active
\* enrollment is at a step of another type than ai_response.
InFunnelNotAtAIStep ==
    /\ Resolved /\ decision.override = 0
    /\ decision.at # 0 /\ decision.step # "ai_response"

\* C13 as stated: with no enabled override and an active enrollment whose
\* current step is not ai_response, the hierarchy gives the workspace default
\* bot (active, auto_respond) when one exists.
C13_NonAIStepFallsToDefault ==
    InFunnelNotAtAIStep => decision.nominal = WorkspaceDefault

\* C13: with no enabled override and an active enrollment whose current step
\* is not ai_response, the AI response is skipped: no bot is selected, the
\* workspace default included.
C13_NonAIStepSkipsAI ==
    InFunnelNotAtAIStep => decision.nominal = 0 /\ decision.bot = 0

\* A message of a conversation waiting at a delay step got no reply although
\* the workspace default bot was active with auto_respond and a trigger of it
\* matched.
C13_DelayStepDefaultSilent ==
    /\ InFunnelNotAtAIStep /\ decision.step = "delay" /\ decision.bot = 0
    /\ WorkspaceDefault = 1 /\ TriggerGate(1, PRICE) = 1
    /\ ai_bots[1].triggers = <<Always>>

\* C14: when no trigger of the bot the hierarchy selected is true of the
\* message, nobody replies: no bot of a lower priority is tried.
C14_GateIsNoSelector ==
    Resolved /\ decision.nominal # 0 /\ ~decision.matched => decision.bot = 0

\* The override bot's keywords were not in the message and nobody replied,
\* although the workspace default bot replies to every message.
C14_OverrideSilentDefaultWilling ==
    /\ Resolved /\ decision.nominal = 9 /\ ~decision.matched /\ decision.bot = 0
    /\ WorkspaceDefault = 1 /\ ai_bots[1].triggers = <<Always>>

\* The last step was the pipeline enrolling the conversation in funnel 1
\* ("Product Inquiry": send_message, delay 2 minutes, ai_response by bot 7).
EnrolledByMessage ==
    /\ Resolved /\ trail # <<>> /\ trail[1].type = "enrolled"
    /\ enrollments[Len(enrollments)].funnel_id = 1

\* The steps the enrolling message ran, in their order.
C15_EnrollmentRuns ==
    EnrolledByMessage =>
        /\ trail = <<[at |-> 1, type |-> "enrolled", next |-> NoTime],
                     [at |-> 1, type |-> "send_message", next |-> NoTime],
                     [at |-> 2, type |-> "delay", next |-> now + 2]>>
        /\ enrollments[Len(enrollments)].sent = 1
        /\ enrollments[Len(enrollments)].current_step = 2
        /\ enrollments[Len(enrollments)].status = "active"
        /\ enrollments[Len(enrollments)].next_step_at = now + 2
        /\ decision.bot # 7

\* An enrollment of funnel 1 passes from its delay step to its ai_response
\* step in a step of a Scheduler run that read it, at a time >= next_step_at.
C15_OnlyTheSchedulerAdvances ==
    \A id \in DOMAIN enrollments :
        /\ enrollments[id].funnel_id = 1
        /\ enrollments[id].current_step = 2
        /\ enrollments'[id].current_step # 2
        => /\ enrollments'[id].current_step = 3
           /\ enrollments[id].next_step_at # NoTime
           /\ enrollments[id].next_step_at <= now
           /\ \E w \in Runs : /\ schedulers[w].pc = "read" /\ schedulers[w].id = id
                               /\ schedulers'[w] = NoRun

\* Bot 7 is selected for an enrollment at its ai_response step only.
C15_Bot7AtAIStepOnly ==
    Resolved /\ decision.nominal = 7 =>
        /\ decision.step = "ai_response"
        /\ ResolvedRow.funnel_id = 1 /\ ResolvedRow.current_step = 3
        /\ ResolvedRow.sent = 1

SendsBefore(f, n) ==
    Cardinality({s \in DOMAIN funnels[f].steps :
                    s < n /\ funnels[f].steps[s].type = "send_message"})

\* Every send_message step an enrollment has passed was executed once.
C16_StepsExecutedOnce ==
    \A id \in DOMAIN enrollments :
        enrollments[id].sent = SendsBefore(enrollments[id].funnel_id,
                                          enrollments[id].current_step)

\* Another run holds a read of the enrollment that run w read.
Racing(w) ==
    \E v \in Runs \ {w} : schedulers[v].pc = "read" /\ schedulers[v].id = schedulers[w].id

\* Of two Scheduler runs that read the same enrollment, the one that finds it
\* as it read it advances it, executing the steps it passes once; the one that
\* finds it advanced changes nothing.
C16_OneRunAdvances ==
    \A w \in Runs :
        schedulers[w].pc = "read" /\ schedulers'[w] = NoRun /\ Racing(w) =>
            LET id == schedulers[w].id
            IN IF \/ enrollments[id].current_step # schedulers[w].step
                  \/ enrollments[id].status # schedulers[w].status
               THEN UNCHANGED <<enrollments, ai_settings>>
               ELSE /\ enrollments'[id].current_step > schedulers[w].step
                    /\ enrollments'[id].sent - enrollments[id].sent
                          = SendsBefore(enrollments[id].funnel_id,
                                        enrollments'[id].current_step)
                            - SendsBefore(enrollments[id].funnel_id,
                                          enrollments[id].current_step)

\* C16: when two Scheduler runs advance the same enrollment concurrently, the
\* step's action is executed once and the enrollment leaves its delay step
\* once: the run that comes second changes nothing.
C16_AdvanceOnce ==
    /\ []C16_StepsExecutedOnce
    /\ [][C16_OneRunAdvances]_vars

ActiveOf(f, k) ==
    {id \in DOMAIN enrollments : /\ enrollments[id].funnel_id = f
                                 /\ enrollments[id].conversation_id = k
                                 /\ enrollments[id].status = "active"}

\* C18: a conversation has at most one active enrollment in a funnel, and an
\* enrollment is completed or exited whatever the completed and exited
\* enrollments of the same conversation in the same funnel: the write is never
\* refused.
C18_OneActiveManyFinished ==
    /\ \A f \in FunnelIds, k \in AutoConvs : Cardinality(ActiveOf(f, k)) <= 1
    /\ rejected \notin {"completed", "exited"}

\* C19: once an assign_human step has run for a conversation, its enrollment
\* is paused and, until a human clears the flag, no bot replies to the
\* conversation, the workspace default bot included.
C19_HumanSilencesBots ==
    /\ \A id \in DOMAIN enrollments :
           CurrentStep(enrollments[id]).type = "assign_human" =>
               enrollments[id].status # "active"
    /\ Resolved /\ decision.human => decision.bot = 0

(***************************************************************************)
(* Properties of disconnect().                                             *)
(***************************************************************************)
\* The step makes a WebSocket object.
Created == \E s \in SockIds : sockets[s].rs # "CONNECTING" /\ sockets'[s].rs = "CONNECTING"

\* C20: from the call of disconnect() to the next call of reconnect() or
\* connect(), or the storage event of a login, no step of the client makes a
\* connection, whatever timer fires and whatever event of the window arrives.
C20_NoConnectionAfterDisconnect ==
    [][disconnected /\ disconnected' => ~Created]_vars

(***************************************************************************)
(* Properties of the client after code 1008, and of its timers.            *)
(***************************************************************************)
\* The step is one of the handlers that connect without the user asking:
\* the backoff timer, or the online, focus or visibility handler.
AutomaticConnect ==
    \/ \E t \in SockIds : ReconnectTimerFires(t)
    \/ H_Online
    \/ H_VisibilityChange
    \/ H_Focus
    \/ P_Online
    \/ P_VisibilityTimerFires

\* C21: a session closed with code 1008 is not followed by a connection the
\* client makes by itself: the step after the close makes no WebSocket
\* object from the backoff timer or the online, focus or visibility handler.
C21_NoRetryAfter1008 ==
    [][closed.sock # 0 /\ closed.code = POLICY_VIOLATION /\ AutomaticConnect => ~Created]_vars

\* C24: at any time at most one reconnect timer is pending and at most one
\* ping interval is running, in the hook as in the provider.
C24_OneTimerOneInterval ==
    /\ Cardinality(reconnTimers) <= 1
    /\ Cardinality(intervals) <= 1

(***************************************************************************)
(* Properties of the message list of the messages page.                    *)
(***************************************************************************)
\* C22: the message list never holds two entries with the same message id,
\* however the new_message events and the REST loads interleave.
C22_NoDuplicateIds ==
    \A i, j \in 1..Len(messages) : i # j => messages[i] # messages[j]

\* The list holds two messages of which the first was also the last event: a
\* REST load and a new_message event brought the same message.
C22_EventAndLoadOfSameMessage ==
    /\ Len(messages) = 2
    /\ lastMessage # NoMessage
    /\ lastMessage.msg = messages[1]
    /\ lastMessage.conv = selectedConversation

\* C28: once no REST load is pending, the list shown holds messages of the
\* selected conversation only: an answer for a conversation selected earlier
\* has not replaced the list of the one selected later.
C28_ListOfSelectedConversation ==
    loads = {} /\ selectedConversation # 0
        => \A k \in 1..Len(messages) : store[messages[k]].conv = selectedConversation

(***************************************************************************)
(* Properties of WebSocketProvider when the user changes.                  *)
(***************************************************************************)
\* Message k of the queue is sent by this step, on the socket that opened.
Flushed(k) ==
    /\ opened'.sock # 0
    /\ messageQueue[k] # ""
    /\ <<opened'.sock, messageQueue[k]>> \in Range(wire')

\* C25: a message queued by sendMessage while a user was logged in is sent by
\* the flush on open only on a session opened for that user.
C25_QueueStaysWithItsUser ==
    [][\A k \in 1..Len(messageQueue) :
           Flushed(k) /\ queuedBy[k] # 0 => queuedBy[k] = sockets'[opened'.sock].uid]_vars

\* C26: in the provider a socket that is open is connected to the URL of the
\* current userId.
C26_OpenSocketOfCurrentUser ==
    impl = "provider" /\ userId # 0 =>
        \A s \in SockIds : sockets[s].rs = "OPEN" => sockets[s].uid = userId

(***************************************************************************)
(* Progress of the hook's connection.                                      *)
(***************************************************************************)
\* A connection attempt for user u is under way.
Connecting(u) == \E s \in SockIds : sockets[s].rs = "CONNECTING" /\ sockets[s].uid = u

\* C27: every run of the hook's effect with a non-null userId is followed by a
\* connection attempt for that userId.
C27_EffectConnects ==
    \A u \in Users : [](fired.kind = "effect" /\ fired.owner = u => <>Connecting(u))

\* One socket is open, no other is connecting or closing, and no reconnect
\* timer is pending.
Settled ==
    /\ ws # 0 /\ sockets[ws].rs = "OPEN"
    /\ \A s \in SockIds \ {ws} : sockets[s].rs \in {"NONE", "CLOSED"}
    /\ reconnTimers = {}

\* connect() has replaced a socket that was open or connecting: the old one is
\* closing with its handlers attached, the new one is ws.current.
ReplacedLive ==
    /\ ws # 0 /\ sockets[ws].rs \in {"CONNECTING", "OPEN"}
    /\ \E s \in SockIds \ {ws} : sockets[s].rs = "CLOSING" /\ sockets[s].oc

\* A reconnect timer is due and its callback needs more socket objects than the
\* run has: what the client does next lies outside the run.
OutOfSockets == \E t \in reconnTimers : ~ENABLED ReconnectTimerFires(t)

\* C23: when connect() has replaced a live socket and the user and the window
\* call nothing more from some time on, the hook comes to have one open socket
\* and no pending reconnect timer, and stays so (in the runs that stay within
\* their socket objects and in which the effect is not cleaned up).
C23_ReplacementSettles ==
    \/ []<><<UserOfHook>>_vars
    \/ <>[]OutOfSockets
    \/ [](ReplacedLive => <>[]Settled \/ <>~listening)

(***************************************************************************)
(* Progress of the provider after a logout.                                *)
(***************************************************************************)
\* The user has logged out in this tab (localStorage holds no userId) and the
\* provider still has the userId of the session.
LoggedOutHere == impl = "provider" /\ listening /\ localUserId = 0 /\ userId # 0

\* No socket is open or connecting.
NoSession == \A s \in SockIds : sockets[s].rs \notin {"CONNECTING", "OPEN"}

\* C29: after a logout in this tab the tab's session is closed in the end,
\* unless a user logs in again.
C29_LogoutClosesSession ==
    [](LoggedOutHere => <>(NoSession \/ localUserId # 0))

====
